---------------------------- MODULE Spec2Model ----------------------------
(***************************************************************************)
(* A model of rose: the virtual filesystem's logical core                  *)
(* (src/rose/virtualfs.py), the release mutators (src/rose/releases.py)    *)
(* and the named advisory locks they take.                                 *)
(*                                                                         *)
(* Strings are sequences of atoms.  An atom is a piece of text that the    *)
(* regular expressions of the program never split: "{NEW}", " ", ".",      *)
(* a run of digits, a date in brackets, a word.  Python's None is NONE.    *)
(***************************************************************************)
EXTENDS Integers, Sequences, FiniteSets, TLC

\* ------------------------------------------------------------------ bounds
MaxOps == 3        \* syscalls per behaviour of the filesystem specification

\* ----------------------------------------------------------------- strings
NONE == <<"<None>">>
SP == " "
DOT == "."
NEWTAG == "{NEW}"

\* A test that takes every value, None and the empty string too, for set.
Truthy_always(x) == TRUE

Truthy(x) == x # NONE /\ x # <<>>

StartsWith(s, pre) ==
    Len(s) >= Len(pre) /\ SubSeq(s, 1, Len(pre)) = pre

RemovePrefix(s, pre) ==
    IF StartsWith(s, pre) THEN SubSeq(s, Len(pre) + 1, Len(s)) ELSE s

NewPrefix == <<NEWTAG, SP>>

DigitAtoms == {"1", "2", "01", "02"}
DateAtoms == {"[2023-01-01]", "[2023-12-31]"}

\* str.lower() on one atom
LowerAtom(a) ==
    CASE a = "JPG" -> "jpg"
      [] a = "M4A" -> "m4a"
      [] a = "Cover" -> "cover"
      [] OTHER -> a

Lower(s) == [i \in 1..Len(s) |-> LowerAtom(s[i])]

\* int(s): the number a run of digits denotes; -1 stands for ValueError
IntOf(s) ==
    CASE s = <<"1">> -> 1
      [] s = <<"01">> -> 1
      [] s = <<"2">> -> 2
      [] s = <<"02">> -> 2
      [] OTHER -> -1

\* The index of the first "." of s, 0 when there is none.
FirstDot(s) ==
    IF \E i \in 1..Len(s) : s[i] = DOT
    THEN CHOOSE i \in 1..Len(s) : s[i] = DOT /\ \A j \in 1..(i - 1) : s[j] # DOT
    ELSE 0

LastDot(s) ==
    IF \E i \in 1..Len(s) : s[i] = DOT
    THEN CHOOSE i \in 1..Len(s) : s[i] = DOT /\ \A j \in (i + 1)..Len(s) : s[j] # DOT
    ELSE 0

\* POSITION_REGEX = ^([^.]+)\.
PositionMatch(s) ==
    LET d == FirstDot(s) IN d >= 2 /\ d < Len(s) /\ s[d + 1] = SP

PositionGroup(s) == IF PositionMatch(s) THEN SubSeq(s, 1, FirstDot(s) - 1) ELSE NONE

PositionSub(s) ==
    IF PositionMatch(s) THEN SubSeq(s, FirstDot(s) + 2, Len(s)) ELSE s

\* ADDED_AT_REGEX = ^\[[\d-]{10}\]
AddedAtMatch(s) == Len(s) >= 2 /\ s[1] \in DateAtoms /\ s[2] = SP

AddedAtSub(s) == IF AddedAtMatch(s) THEN SubSeq(s, 3, Len(s)) ELSE s

\* s[1:]
DropFirst(s) == IF s = <<>> THEN <<>> ELSE Tail(s)

\* pathlib's suffix: from the last "." on, "" when the name has none, starts
\* with it or ends with it.
Suffix(s) ==
    LET d == LastDot(s) IN
    IF d >= 2 /\ d < Len(s) THEN SubSeq(s, d, Len(s)) ELSE <<>>


\* ------------------------------------------------------------ VirtualPath
V_RELEASES == <<"1. Releases">>
V_NEW == <<"2. Releases - New">>
V_RECENT == <<"3. Releases - Recently Added">>
V_ARTISTS == <<"4. Artists">>
V_GENRES == <<"5. Genres">>
V_LABELS == <<"6. Labels">>
V_COLLAGES == <<"7. Collages">>
V_PLAYLISTS == <<"8. Playlists">>

\* The dataclass VirtualPath; view = "ENOENT" stands for the FUSEError(ENOENT)
\* that parse raises.
VirtualPath(view, artist, genre, label, collage, playlist, release, rpos, file, fpos) ==
    [view |-> view, artist |-> artist, genre |-> genre, label |-> label,
     collage |-> collage, playlist |-> playlist, release |-> release,
     release_position |-> rpos, file |-> file, file_position |-> fpos]

ParseError == VirtualPath("ENOENT", NONE, NONE, NONE, NONE, NONE, NONE, NONE, NONE, NONE)

ViewOnly(v) == VirtualPath(v, NONE, NONE, NONE, NONE, NONE, NONE, NONE, NONE, NONE)

\* The three release views: <view>/<release>[/<file>]
ParseReleaseView(v, parts) ==
    CASE Len(parts) = 1 -> ViewOnly(v)
      [] Len(parts) = 2 ->
            VirtualPath(v, NONE, NONE, NONE, NONE, NONE, parts[2], NONE, NONE, NONE)
      [] Len(parts) = 3 ->
            VirtualPath(v, NONE, NONE, NONE, NONE, NONE, parts[2], NONE,
                        PositionSub(parts[3]), PositionGroup(parts[3]))
      [] OTHER -> ParseError

ParseRecentlyAdded(parts) ==
    CASE Len(parts) = 1 -> ViewOnly("Recently Added")
      [] Len(parts) = 2 /\ AddedAtMatch(parts[2]) ->
            VirtualPath("Recently Added", NONE, NONE, NONE, NONE, NONE,
                        AddedAtSub(parts[2]), NONE, NONE, NONE)
      [] Len(parts) = 3 /\ AddedAtMatch(parts[2]) ->
            VirtualPath("Recently Added", NONE, NONE, NONE, NONE, NONE,
                        AddedAtSub(parts[2]), NONE,
                        PositionSub(parts[3]), PositionGroup(parts[3]))
      [] OTHER -> ParseError

\* Artists, Genres, Labels: <view>/<key>[/<release>[/<file>]]
ParseKeyedView(v, parts) ==
    LET key == IF Len(parts) >= 2 THEN parts[2] ELSE NONE
        a == IF v = "Artists" THEN key ELSE NONE
        g == IF v = "Genres" THEN key ELSE NONE
        l == IF v = "Labels" THEN key ELSE NONE
    IN
    CASE Len(parts) = 1 -> ViewOnly(v)
      [] Len(parts) = 2 -> VirtualPath(v, a, g, l, NONE, NONE, NONE, NONE, NONE, NONE)
      [] Len(parts) = 3 -> VirtualPath(v, a, g, l, NONE, NONE, parts[3], NONE, NONE, NONE)
      [] Len(parts) = 4 ->
            VirtualPath(v, a, g, l, NONE, NONE, parts[3], NONE,
                        PositionSub(parts[4]), PositionGroup(parts[4]))
      [] OTHER -> ParseError

ParseCollages(parts, parse_release_position) ==
    LET rel == IF parse_release_position THEN PositionSub(parts[3]) ELSE parts[3]
        rpos == IF parse_release_position THEN PositionGroup(parts[3]) ELSE NONE
    IN
    CASE Len(parts) = 1 -> ViewOnly("Collages")
      [] Len(parts) = 2 ->
            VirtualPath("Collages", NONE, NONE, NONE, parts[2], NONE, NONE, NONE, NONE, NONE)
      [] Len(parts) = 3 ->
            VirtualPath("Collages", NONE, NONE, NONE, parts[2], NONE, rel, rpos, NONE, NONE)
      [] Len(parts) = 4 ->
            VirtualPath("Collages", NONE, NONE, NONE, parts[2], NONE, rel, rpos,
                        PositionSub(parts[4]), PositionGroup(parts[4]))
      [] OTHER -> ParseError

ParsePlaylists(parts) ==
    CASE Len(parts) = 1 -> ViewOnly("Playlists")
      [] Len(parts) = 2 ->
            VirtualPath("Playlists", NONE, NONE, NONE, NONE, parts[2], NONE, NONE, NONE, NONE)
      [] Len(parts) = 3 ->
            VirtualPath("Playlists", NONE, NONE, NONE, NONE, parts[2], NONE, NONE,
                        PositionSub(parts[3]), PositionGroup(parts[3]))
      [] OTHER -> ParseError

\* VirtualPath.parse.  A path is the sequence of its names; the root is <<>>.
Parse(parts, parse_release_position) ==
    CASE parts = <<>> -> ViewOnly("Root")
      [] parts # <<>> /\ parts[1] = V_RELEASES -> ParseReleaseView("Releases", parts)
      [] parts # <<>> /\ parts[1] = V_NEW -> ParseReleaseView("New", parts)
      [] parts # <<>> /\ parts[1] = V_RECENT -> ParseRecentlyAdded(parts)
      [] parts # <<>> /\ parts[1] = V_ARTISTS -> ParseKeyedView("Artists", parts)
      [] parts # <<>> /\ parts[1] = V_GENRES -> ParseKeyedView("Genres", parts)
      [] parts # <<>> /\ parts[1] = V_LABELS -> ParseKeyedView("Labels", parts)
      [] parts # <<>> /\ parts[1] = V_COLLAGES -> ParseCollages(parts, parse_release_position)
      [] parts # <<>> /\ parts[1] = V_PLAYLISTS -> ParsePlaylists(parts)
      [] OTHER -> ParseError


\* ---------------------------------------------------------------- library
\* Two releases, r1 of two tracks and r2 of one, as identifiers (uuids) and
\* the names the indexer derives for them.
RIds == {<<"r1">>, <<"r2">>}
TIds == {<<"t1">>, <<"t2">>, <<"t3">>}
CNames == {<<"C">>, <<"D">>}
PNames == {<<"P">>, <<"Q">>}

TrackRelease(t) == IF t = <<"t2">> THEN <<"r2">> ELSE <<"r1">>
TrackFilename(t) ==
    CASE t = <<"t1">> -> <<"x", DOT, "m4a">>
      [] t = <<"t2">> -> <<"y", DOT, "m4a">>
      [] OTHER -> <<"z", DOT, "m4a">>
BaseName(r) == IF r = <<"r1">> THEN <<"A">> ELSE <<"B">>

SUPPORTED_AUDIO_EXTENSIONS == {<<DOT, "m4a">>, <<DOT, "mp3">>}
ValidArtExts == {<<"jpg">>, <<"png">>}
ValidCoverArts == {<<"cover", DOT, "jpg">>, <<"cover", DOT, "png">>,
                   <<"folder", DOT, "jpg">>, <<"folder", DOT, "png">>}

VARIABLES
    srcDirs,      \* the releases whose directory is in the source tree
    sidecarNew,   \* release -> the `new` key of its .rose.{id}.toml
    srcCover,     \* release -> the name of its cover art file, or NONE
    tags,         \* track -> the album tag of its audio file
    cache,        \* release -> its row of the read cache
    collages,     \* collage name -> [exists, releases]
    playlists,    \* playlist name -> [exists, tracks, cover]
    fhState,      \* FileHandleManager._state
    roseToHost,   \* FileHandleManager._rose_to_host_map
    specialOps,   \* RoseLogicalCore.file_creation_special_ops
    updateOnClose,\* RoseLogicalCore.update_release_on_fh_close
    readdirCache, \* VirtualFS.readdir_cache
    ghostFiles,   \* VirtualFS.ghost_existing_files
    ghostDirs,    \* VirtualFS.ghost_writable_empty_directory
    getattrCache, \* VirtualFS.getattr_cache
    lookupCache,  \* VirtualFS.lookup_cache
    vnow,         \* the clock of the caches, in seconds
    stat,         \* what the last getattr or lookup answered
    made,         \* what the callers have made, and when
    ret,          \* the syscall being answered: what was asked, errno, mutators called
    nops,         \* syscalls so far
    pc,           \* process -> where it is in the mutator it runs
    job,          \* process -> the mutator it runs and its local variables
    now,          \* the clock
    locks,        \* release -> valid_until of the row of its lock, 0 for no row
    njobs,        \* mutators started so far
    diskDirs,     \* directory of the source tree -> the release directory there
    relRows,      \* the rows of the releases table
    tomlFiles,    \* the entries of the collage TOML and of the playlist TOML
    entryRows,    \* the rows of collages_releases and of playlists_tracks
    scan,         \* the last run of the indexer, or change of the source tree
    nscans,       \* indexer runs and changes of the source tree so far
    mrel,         \* a MetadataRelease
    mtoml,        \* what serialize has made of it, once it has run
    mback,        \* what from_toml has made of that, once it has run
    rtags,        \* track -> the tags of its audio file that the rules engine reads
    rrule,        \* the MetadataRule that is run
    rcache,       \* track -> its row of the read cache, as the last index left it
    rrun,         \* the last run of the rule: its arguments and what it did
    nruns,        \* runs of the rule so far
    inodeToPath,  \* INodeManager._inode_to_path_map
    pathToInode,  \* INodeManager._path_to_inode_map
    nextInodeCtr  \* INodeManager._next_inode_ctr

libVars == <<srcDirs, sidecarNew, srcCover, tags, cache, collages, playlists>>
fhVars == <<fhState, roseToHost, specialOps, updateOnClose, readdirCache>>
ghostVars == <<ghostFiles, ghostDirs, getattrCache, lookupCache, vnow, stat, made>>
vfsVars == <<fhVars, ret, nops, ghostVars>>
mutVars == <<pc, job, now, locks, njobs>>
idxVars == <<diskDirs, relRows, tomlFiles, entryRows, scan, nscans>>
tomlVars == <<mrel, mtoml, mback>>
ruleVars == <<rtags, rrule, rcache, rrun, nruns>>
inoVars == <<inodeToPath, pathToInode, nextInodeCtr>>
extVars == <<tomlVars, ruleVars, inoVars>>

\* The library as one value, for the mutators, which are functions of it.
Lib == [srcDirs |-> srcDirs, sidecarNew |-> sidecarNew, srcCover |-> srcCover,
        tags |-> tags, cache |-> cache, collages |-> collages, playlists |-> playlists]

SetLib(L) ==
    /\ srcDirs' = L.srcDirs
    /\ sidecarNew' = L.sidecarNew
    /\ srcCover' = L.srcCover
    /\ tags' = L.tags
    /\ cache' = L.cache
    /\ collages' = L.collages
    /\ playlists' = L.playlists

\* What a call leaves behind: the library, the error raised ("" for none) and
\* the mutators that were called, in order.
Outcome(L, err, calls) == [lib |-> L, err |-> err, calls |-> calls]

\* ------------------------------------------------------- cache query API
\* virtual_dirname: "{NEW} " when new, then the formatted name.
VirtualDirname(L, r) == (IF L.cache[r].new THEN NewPrefix ELSE <<>>) \o BaseName(r)

valid_uuid(x) == x \in RIds

get_release_id_from_virtual_dirname(L, v) ==
    IF \E r \in RIds : L.cache[r].present /\ VirtualDirname(L, r) = v
    THEN CHOOSE r \in RIds : L.cache[r].present /\ VirtualDirname(L, r) = v
    ELSE NONE

get_release_virtual_dirname_from_id(L, r) ==
    IF r \in RIds /\ L.cache[r].present THEN VirtualDirname(L, r) ELSE NONE

\* None, or the release's identifier standing for its source path.
get_release_source_path_from_id(L, r) ==
    IF r \in RIds /\ L.cache[r].present THEN r ELSE NONE

\* get_release takes an identifier or a virtual dirname; NONE when not cached.
get_release(L, x) ==
    IF x \in RIds
    THEN (IF L.cache[x].present THEN x ELSE NONE)
    ELSE get_release_id_from_virtual_dirname(L, x)

TrackCached(L, t) == L.cache[TrackRelease(t)].present

\* The cached tracks of a release, in order.
ReleaseTracks(r) == IF r = <<"r1">> THEN << <<"t1">>, <<"t3">> >> ELSE << <<"t2">> >>

RECURSIVE FilterCached(_, _)
FilterCached(L, ts) ==
    IF ts = <<>> THEN <<>>
    ELSE (IF TrackCached(L, Head(ts)) THEN <<Head(ts)>> ELSE <<>>)
         \o FilterCached(L, Tail(ts))

playlist_exists(L, name) == name \in PNames /\ L.playlists[name].exists

collage_exists(L, name) == name \in CNames /\ L.collages[name].exists

\* get_playlist: the tracks are the playlist's tracks joined with the tracks
\* table, so a track that is not cached is not among them.
PlaylistTracks(L, name) == FilterCached(L, L.playlists[name].tracks)

\* readdir of "2. Releases - New": the virtual dirnames of list_releases(new=True).
readdir_new(L) ==
    {VirtualDirname(L, r) : r \in {x \in RIds : L.cache[x].present /\ L.cache[x].new}}

\* ----------------------------------------------------------- the indexer
\* update_cache_for_releases for one release directory.
update_cache_for_release(L, r) ==
    [L EXCEPT !.cache[r] =
        IF r \in L.srcDirs
        THEN [present |-> TRUE, new |-> L.sidecarNew[r], cover |-> L.srcCover[r],
              album |-> L.tags[ReleaseTracks(r)[1]]]
        ELSE @]

update_cache_evict_nonexistent_releases(L) ==
    [L EXCEPT !.cache =
        [r \in RIds |-> IF r \in L.srcDirs THEN L.cache[r]
                        ELSE [L.cache[r] EXCEPT !.present = FALSE]]]


Elems(seq) == {seq[i] : i \in 1..Len(seq)}

\* Collage indexing of one TOML: an entry whose uuid is in the releases table
\* has missing unset, any other is flagged, in the file and in the rows.
update_cache_for_collage(L, name) ==
    LET flagged == {r \in Elems(L.collages[name].releases) : ~L.cache[r].present}
    IN [L EXCEPT !.collages[name].toml_missing = flagged,
                 !.collages[name].db_missing = flagged]

\* update_cache_for_collages(c, None, force=True)
update_cache_for_collages(L) ==
    [L EXCEPT !.collages =
        [c \in CNames |-> IF L.collages[c].exists
                          THEN update_cache_for_collage(L, c).collages[c]
                          ELSE L.collages[c]]]

\* Playlist indexing, the same over the tracks table.
update_cache_for_playlist(L, name) ==
    LET flagged == {t \in Elems(L.playlists[name].tracks) : ~TrackCached(L, t)}
    IN [L EXCEPT !.playlists[name].toml_missing = flagged,
                 !.playlists[name].db_missing = flagged]

update_cache_for_playlists(L) ==
    [L EXCEPT !.playlists =
        [q \in PNames |-> IF L.playlists[q].exists
                          THEN update_cache_for_playlist(L, q).playlists[q]
                          ELSE L.playlists[q]]]

\* ------------------------------------------------------ release mutators
resolve_release_ids(L, x) ==
    IF valid_uuid(x)
    THEN (IF get_release_virtual_dirname_from_id(L, x) = NONE THEN NONE ELSE x)
    ELSE get_release_id_from_virtual_dirname(L, x)

delete_release(L, x) ==
    LET id == resolve_release_ids(L, x) IN
    IF id = NONE THEN Outcome(L, "ReleaseDoesNotExistError", <<>>)
    ELSE IF get_release_source_path_from_id(L, id) = NONE THEN Outcome(L, "", <<>>)
    ELSE Outcome(update_cache_for_collages(update_cache_evict_nonexistent_releases(
                     [L EXCEPT !.srcDirs = @ \ {id}])), "", <<>>)

\* toggle_release_new that rewrites the sidecar and leaves the cache as it was.
toggle_release_new_stale(L, x) ==
    LET id == resolve_release_ids(L, x) IN
    IF id = NONE THEN Outcome(L, "ReleaseDoesNotExistError", <<>>)
    ELSE IF get_release_source_path_from_id(L, id) = NONE THEN Outcome(L, "", <<>>)
    ELSE Outcome([L EXCEPT !.sidecarNew[id] = ~@], "", <<>>)

toggle_release_new(L, x) ==
    LET id == resolve_release_ids(L, x) IN
    IF id = NONE THEN Outcome(L, "ReleaseDoesNotExistError", <<>>)
    ELSE IF get_release_source_path_from_id(L, id) = NONE THEN Outcome(L, "", <<>>)
    ELSE Outcome(update_cache_for_release(
                     [L EXCEPT !.sidecarNew[id] = ~@], id), "", <<>>)

\* The new cover art is a file named f<suffix>.
set_release_cover_art(L, x, suffix) ==
    LET id == resolve_release_ids(L, x) IN
    IF DropFirst(Lower(suffix)) \notin ValidArtExts
    THEN Outcome(L, "InvalidCoverArtFileError", <<>>)
    ELSE IF id = NONE THEN Outcome(L, "ReleaseDoesNotExistError", <<>>)
    ELSE IF get_release_source_path_from_id(L, id) = NONE THEN Outcome(L, "", <<>>)
    ELSE Outcome(update_cache_for_release(
                     [L EXCEPT !.srcCover[id] = <<"cover">> \o suffix], id), "", <<>>)

remove_release_cover_art(L, x) ==
    LET id == resolve_release_ids(L, x) IN
    IF id = NONE THEN Outcome(L, "ReleaseDoesNotExistError", <<>>)
    ELSE IF get_release_source_path_from_id(L, id) = NONE THEN Outcome(L, "", <<>>)
    ELSE Outcome(update_cache_for_release(
                     [L EXCEPT !.srcCover[id] = NONE], id), "", <<>>)

\* ------------------------------------------ collage and playlist mutators
RECURSIVE Without(_, _)
Without(seq, x) ==
    IF seq = <<>> THEN <<>>
    ELSE (IF Head(seq) = x THEN <<>> ELSE <<Head(seq)>>) \o Without(Tail(seq), x)

InSeq(seq, x) == \E i \in 1..Len(seq) : seq[i] = x

\* A collage: the uuids of its TOML entries in order (its rows in the cache
\* have the same order), the uuids whose TOML entry carries missing = true
\* and the uuids whose cache row does.  A playlist likewise, over tracks.
NoCollage == [exists |-> FALSE, releases |-> <<>>, toml_missing |-> {}, db_missing |-> {}]
NoPlaylist == [exists |-> FALSE, tracks |-> <<>>, cover |-> NONE,
               toml_missing |-> {}, db_missing |-> {}]

create_collage(L, name) ==
    IF name \notin CNames THEN Outcome(L, "RoseError", <<>>)
    ELSE IF L.collages[name].exists THEN Outcome(L, "", <<>>)
    ELSE Outcome([L EXCEPT !.collages[name] = [NoCollage EXCEPT !.exists = TRUE]],
                 "", <<>>)

delete_collage(L, name) ==
    IF ~collage_exists(L, name) THEN Outcome(L, "CollageDoesNotExistError", <<>>)
    ELSE Outcome([L EXCEPT !.collages[name] = NoCollage], "", <<>>)

rename_collage(L, old, new) ==
    IF ~collage_exists(L, old) THEN Outcome(L, "CollageDoesNotExistError", <<>>)
    ELSE IF new \notin CNames \/ collage_exists(L, new) THEN Outcome(L, "RoseError", <<>>)
    ELSE Outcome([L EXCEPT !.collages[new] = L.collages[old],
                           !.collages[old] = NoCollage], "", <<>>)

\* add_release_to_collage that appends whether or not the release is there.
add_release_to_collage_appends(L, name, x) ==
    LET id == resolve_release_ids(L, x) IN
    IF id = NONE THEN Outcome(L, "ReleaseDoesNotExistError", <<>>)
    ELSE IF ~collage_exists(L, name) THEN Outcome(L, "CollageDoesNotExistError", <<>>)
    ELSE Outcome(update_cache_for_collage(
                     [L EXCEPT !.collages[name].releases = Append(@, id)], name), "", <<>>)

add_release_to_collage(L, name, x) ==
    LET id == resolve_release_ids(L, x) IN
    IF id = NONE THEN Outcome(L, "ReleaseDoesNotExistError", <<>>)
    ELSE IF ~collage_exists(L, name) THEN Outcome(L, "CollageDoesNotExistError", <<>>)
    ELSE IF InSeq(L.collages[name].releases, id) THEN Outcome(L, "", <<>>)
    ELSE Outcome(update_cache_for_collage(
                     [L EXCEPT !.collages[name].releases = Append(@, id)], name), "", <<>>)

remove_release_from_collage(L, name, x) ==
    LET id == resolve_release_ids(L, x) IN
    IF id = NONE THEN Outcome(L, "ReleaseDoesNotExistError", <<>>)
    ELSE IF ~collage_exists(L, name) THEN Outcome(L, "CollageDoesNotExistError", <<>>)
    ELSE Outcome(update_cache_for_collage(
                     [L EXCEPT !.collages[name].releases = Without(@, id)], name), "", <<>>)

create_playlist(L, name) ==
    IF name \notin PNames THEN Outcome(L, "RoseError", <<>>)
    ELSE IF L.playlists[name].exists THEN Outcome(L, "", <<>>)
    ELSE Outcome([L EXCEPT !.playlists[name] =
                      [NoPlaylist EXCEPT !.exists = TRUE]], "", <<>>)

delete_playlist(L, name) ==
    IF ~playlist_exists(L, name) THEN Outcome(L, "PlaylistDoesNotExistError", <<>>)
    ELSE Outcome([L EXCEPT !.playlists[name] = NoPlaylist], "", <<>>)

rename_playlist(L, old, new) ==
    IF ~playlist_exists(L, old) THEN Outcome(L, "PlaylistDoesNotExistError", <<>>)
    ELSE IF new \notin PNames \/ playlist_exists(L, new) THEN Outcome(L, "RoseError", <<>>)
    ELSE Outcome([L EXCEPT !.playlists[new] = L.playlists[old],
                           !.playlists[old] = NoPlaylist], "", <<>>)

add_track_to_playlist(L, name, t) ==
    IF ~playlist_exists(L, name) THEN Outcome(L, "PlaylistDoesNotExistError", <<>>)
    ELSE IF t \notin TIds \/ ~TrackCached(L, t) THEN Outcome(L, "TrackDoesNotExistError", <<>>)
    ELSE IF InSeq(L.playlists[name].tracks, t) THEN Outcome(L, "", <<>>)
    ELSE Outcome(update_cache_for_playlist(
                     [L EXCEPT !.playlists[name].tracks = Append(@, t)], name), "", <<>>)

remove_track_from_playlist(L, name, t) ==
    IF ~playlist_exists(L, name) THEN Outcome(L, "PlaylistDoesNotExistError", <<>>)
    ELSE Outcome(update_cache_for_playlist(
                     [L EXCEPT !.playlists[name].tracks = Without(@, t)], name), "", <<>>)

set_playlist_cover_art(L, name, suffix) ==
    IF DropFirst(Lower(suffix)) \notin ValidArtExts
    THEN Outcome(L, "InvalidCoverArtFileError", <<>>)
    ELSE IF ~playlist_exists(L, name) THEN Outcome(L, "PlaylistDoesNotExistError", <<>>)
    ELSE Outcome([L EXCEPT !.playlists[name].cover = name \o suffix], "", <<>>)

remove_playlist_cover_art(L, name) ==
    IF ~playlist_exists(L, name) THEN Outcome(L, "PlaylistDoesNotExistError", <<>>)
    ELSE Outcome([L EXCEPT !.playlists[name].cover = NONE], "", <<>>)


\* ------------------------------------------------------ RoseLogicalCore
\* One mutator call of a handler: its outcome, with the call recorded.
Called(o, call) == Outcome(o.lib, o.err, <<call>>)

\* RELEASE_PREFIX_STRIPPERS: ^ , ^\[\d{4}-\d{2}-\d{2}\] and ^\d+\.
RECURSIVE DigitRun(_)
DigitRun(s) ==
    IF s # <<>> /\ Head(s) \in DigitAtoms THEN 1 + DigitRun(Tail(s)) ELSE 0

StripDate(s) ==
    IF Len(s) >= 2 /\ s[1] \in DateAtoms /\ s[2] = SP THEN SubSeq(s, 3, Len(s)) ELSE s

StripNumber(s) ==
    LET k == DigitRun(s) IN
    IF k >= 1 /\ Len(s) >= k + 2 /\ s[k + 1] = DOT /\ s[k + 2] = SP
    THEN SubSeq(s, k + 3, Len(s)) ELSE s

RELEASE_PREFIX_STRIPPERS(s) == <<s, StripDate(s), StripNumber(s)>>

\* The loop of mkdir over the prefix strippers, from the i-th on.
RECURSIVE MkdirAttempts(_, _, _, _, _)
MkdirAttempts(L, collage, cands, i, seen) ==
    IF i > Len(cands) THEN Outcome(L, "ENOENT", <<>>)
    ELSE IF cands[i] \in seen THEN MkdirAttempts(L, collage, cands, i + 1, seen)
    ELSE LET o == add_release_to_collage(L, collage, cands[i])
             call == <<"add_release_to_collage", collage, cands[i]>>
         IN IF o.err = "ReleaseDoesNotExistError"
            THEN LET rest == MkdirAttempts(L, collage, cands, i + 1, seen \cup {cands[i]})
                 IN Outcome(rest.lib, rest.err, <<call>> \o rest.calls)
            ELSE Called(o, call)

mkdir(L, p) ==
    IF Truthy(p.collage) /\ p.release = NONE
    THEN Called(create_collage(L, p.collage), <<"create_collage", p.collage>>)
    ELSE IF Truthy(p.collage) /\ Truthy(p.release)
    THEN MkdirAttempts(L, p.collage, RELEASE_PREFIX_STRIPPERS(p.release), 1, {})
    ELSE IF Truthy(p.playlist) /\ p.file = NONE
    THEN Called(create_playlist(L, p.playlist), <<"create_playlist", p.playlist>>)
    ELSE Outcome(L, "EACCES", <<>>)

rmdir(L, p) ==
    IF p.view = "Collages" /\ Truthy(p.collage) /\ p.release = NONE
    THEN Called(delete_collage(L, p.collage), <<"delete_collage", p.collage>>)
    ELSE IF p.view = "Collages" /\ Truthy(p.collage) /\ Truthy(p.release)
    THEN Called(remove_release_from_collage(L, p.collage, p.release),
                <<"remove_release_from_collage", p.collage, p.release>>)
    ELSE IF p.view = "Playlists" /\ Truthy(p.playlist) /\ p.file = NONE
    THEN Called(delete_playlist(L, p.playlist), <<"delete_playlist", p.playlist>>)
    ELSE IF p.view # "Collages" /\ p.release # NONE
    THEN Called(delete_release(L, p.release), <<"delete_release", p.release>>)
    ELSE Outcome(L, "EACCES", <<>>)

rename(L, old, new) ==
    IF /\ Truthy(old.release) /\ Truthy(new.release)
       /\ RemovePrefix(old.release, NewPrefix) = RemovePrefix(new.release, NewPrefix)
       /\ ~Truthy(old.file) /\ ~Truthy(new.file)
       /\ StartsWith(old.release, NewPrefix) # StartsWith(new.release, NewPrefix)
    THEN Called(toggle_release_new(L, old.release), <<"toggle_release_new", old.release>>)
    ELSE IF /\ old.view = "Collages" /\ new.view = "Collages"
            /\ Truthy(old.collage) /\ Truthy(new.collage)
            /\ old.collage # new.collage
            /\ ~Truthy(old.release) /\ ~Truthy(new.release)
    THEN Called(rename_collage(L, old.collage, new.collage),
                <<"rename_collage", old.collage, new.collage>>)
    ELSE IF /\ old.view = "Playlists" /\ new.view = "Playlists"
            /\ Truthy(old.playlist) /\ Truthy(new.playlist)
            /\ old.playlist # new.playlist
            /\ ~Truthy(old.file) /\ ~Truthy(new.file)
    THEN Called(rename_playlist(L, old.playlist, new.playlist),
                <<"rename_playlist", old.playlist, new.playlist>>)
    ELSE Outcome(L, "EACCES", <<>>)

\* The first index of tracks whose track has that filename; 0 when none has.
FirstNamed(tracks, file) ==
    IF \E i \in 1..Len(tracks) : TrackFilename(tracks[i]) = file
    THEN CHOOSE i \in 1..Len(tracks) :
            /\ TrackFilename(tracks[i]) = file
            /\ \A j \in 1..(i - 1) : TrackFilename(tracks[j]) # file
    ELSE 0

\* for idx, track in enumerate(tracks):
\*     if track.virtual_filename == file and idx + 1 == int(position): ...
\* The index found, 0 for none, -1 when int() raises ValueError (it is only
\* evaluated for a track that has the filename).
TrackAtPosition(tracks, file, position) ==
    IF FirstNamed(tracks, file) = 0 THEN 0
    ELSE IF IntOf(position) = -1 THEN -1
    ELSE IF \E i \in 1..Len(tracks) :
                TrackFilename(tracks[i]) = file /\ i = IntOf(position)
    THEN IntOf(position)
    ELSE 0

unlink_covers(L, p) ==
    LET o1 == IF /\ p.view = "Playlists" /\ Truthy(p.playlist) /\ Truthy(p.file)
                 /\ Lower(p.file) \in ValidCoverArts
                 /\ playlist_exists(L, p.playlist)
              THEN Called(remove_playlist_cover_art(L, p.playlist),
                          <<"remove_playlist_cover_art", p.playlist>>)
              ELSE Outcome(L, "", <<>>)
    IN
    IF o1.err # "" THEN o1
    ELSE IF /\ Truthy(p.release) /\ Truthy(p.file)
            /\ Lower(p.file) \in ValidCoverArts
            /\ get_release(o1.lib, p.release) # NONE
    THEN LET id == get_release(o1.lib, p.release)
             o2 == remove_release_cover_art(o1.lib, id)
         IN Outcome(o2.lib, o2.err, o1.calls \o << <<"remove_release_cover_art", id>> >>)
    ELSE o1

unlink(L, p) ==
    IF p.view = "Playlists" /\ Truthy(p.playlist) /\ p.file = NONE
    THEN Called(delete_playlist(L, p.playlist), <<"delete_playlist", p.playlist>>)
    ELSE IF /\ p.view = "Playlists" /\ Truthy(p.playlist) /\ Truthy(p.file)
            /\ Truthy(p.file_position) /\ playlist_exists(L, p.playlist)
    THEN LET tracks == PlaylistTracks(L, p.playlist)
             i == TrackAtPosition(tracks, p.file, p.file_position)
         IN IF i = -1 THEN Outcome(L, "ValueError", <<>>)
            ELSE IF i = 0 THEN Outcome(L, "ENOENT", <<>>)
            ELSE Called(remove_track_from_playlist(L, p.playlist, tracks[i]),
                        <<"remove_track_from_playlist", p.playlist, tracks[i]>>)
    ELSE unlink_covers(L, p)

\* track_exists and cover_exists of the cache: the release has a track of
\* that virtual filename, a cover image of that name.
track_exists(L, id, file) == FirstNamed(FilterCached(L, ReleaseTracks(id)), file) # 0

cover_exists(L, id, file) == L.cache[id].cover # NONE /\ L.cache[id].cover = file

\* list_collage_releases: the positions of the collage whose release is
\* cached, in order.
CollagePositions(L, name) ==
    SelectSeq([i \in 1..Len(L.collages[name].releases) |-> i],
              LAMBDA i : L.cache[L.collages[name].releases[i]].present)

\* str(idx).zfill(pad_size) for the few entries a listing here has.
PosName(i) == IF i = 1 THEN "1" ELSE IF i = 2 THEN "2" ELSE "3"

\* formatted_release_position of the i-th track of a release.
ReleasePosName(i) == IF i = 1 THEN "01" ELSE "02"

\* getattr_release of getattr: "dir", "file" or "ENOENT".
getattr_release(L, p, id) ==
    IF ~Truthy(p.file) THEN "dir"
    ELSE IF track_exists(L, id, p.file) THEN "file"
    ELSE IF cover_exists(L, id, p.file) THEN "file"
    ELSE "ENOENT"

\* RoseLogicalCore.getattr: the kind of the file, "ENOENT", or "ValueError"
\* for a position that int() refuses.  The library has no artist, genre or
\* label, so artist_exists, genre_exists and label_exists are false.
getattr(L, p) ==
    IF Truthy(p.playlist)
    THEN IF ~playlist_exists(L, p.playlist) THEN "ENOENT"
         ELSE IF ~Truthy(p.file) THEN "dir"
         ELSE LET tracks == PlaylistTracks(L, p.playlist)
                  i == IF Truthy(p.file_position)
                       THEN TrackAtPosition(tracks, p.file, p.file_position) ELSE 0
                  cover == L.playlists[p.playlist].cover
              IN IF i = -1 THEN "ValueError"
                 ELSE IF i > 0 THEN "file"
                 ELSE IF cover # NONE /\ <<"cover">> \o Suffix(cover) = p.file THEN "file"
                 ELSE "ENOENT"
    ELSE IF Truthy(p.collage)
    THEN IF ~collage_exists(L, p.collage) THEN "ENOENT"
         ELSE IF ~Truthy(p.release) THEN "dir"
         ELSE LET ps == CollagePositions(L, p.collage)
                  rel(i) == L.collages[p.collage].releases[ps[i]]
              IN IF \E i \in 1..Len(ps) : VirtualDirname(L, rel(i)) = p.release
                 THEN getattr_release(L, p, get_release(L, p.release))
                 ELSE "ENOENT"
    ELSE IF Truthy(p.label) \/ Truthy(p.genre) \/ Truthy(p.artist) THEN "ENOENT"
    ELSE IF Truthy(p.release)
    THEN IF p.view = "New" /\ ~StartsWith(p.release, NewPrefix) THEN "ENOENT"
         ELSE IF get_release(L, p.release) # NONE
         THEN getattr_release(L, p, get_release(L, p.release))
         ELSE "ENOENT"
    ELSE IF p.view # "ENOENT" THEN "dir"
    ELSE "ENOENT"

\* What readdir yields: an error, or the names of the entries in order.
Listing(err, names) == [err |-> err, names |-> names]

RSeq == << <<"r1">>, <<"r2">> >>
CSeq == << <<"C">>, <<"D">> >>
PSeq == << <<"P">>, <<"Q">> >>

\* list_releases: the cached releases, the new ones when new is asked for.
list_releases(L, new) ==
    SelectSeq(RSeq, LAMBDA r : L.cache[r].present /\ (new => L.cache[r].new))

Dots == << <<DOT>>, <<DOT, DOT>> >>

readdir(L, p) ==
    LET g == getattr(L, p) IN
    IF g \in {"ENOENT", "ValueError"} THEN Listing(g, <<>>)
    ELSE IF p.view = "Root"
    THEN Listing("", Dots \o <<V_RELEASES, V_NEW, V_RECENT, V_ARTISTS, V_GENRES,
                               V_LABELS, V_COLLAGES, V_PLAYLISTS>>)
    ELSE IF Truthy(p.release)
    THEN LET id == get_release(L, p.release)
             tracks == FilterCached(L, ReleaseTracks(id))
         IN IF id = NONE THEN Listing("ENOENT", Dots)
            ELSE Listing("", Dots
                    \o [i \in 1..Len(tracks) |->
                           <<ReleasePosName(i), DOT, SP>> \o TrackFilename(tracks[i])]
                    \o (IF L.cache[id].cover # NONE THEN <<L.cache[id].cover>> ELSE <<>>))
    ELSE IF p.view \in {"Releases", "New"}
    THEN LET rs == list_releases(L, p.view = "New")
         IN Listing("", Dots \o [i \in 1..Len(rs) |-> VirtualDirname(L, rs[i])])
    ELSE IF p.view = "Recently Added"
    THEN LET rs == list_releases(L, FALSE)
         IN Listing("", Dots \o [i \in 1..Len(rs) |->
                                   <<"[2023-01-01]", SP>> \o VirtualDirname(L, rs[i])])
    ELSE IF p.view \in {"Artists", "Genres", "Labels"} THEN Listing("", Dots)
    ELSE IF p.view = "Collages" /\ Truthy(p.collage)
    THEN LET ps == CollagePositions(L, p.collage)
         IN Listing("", Dots \o [i \in 1..Len(ps) |->
                    <<PosName(ps[i]), DOT, SP>>
                        \o VirtualDirname(L, L.collages[p.collage].releases[ps[i]])])
    ELSE IF p.view = "Collages"
    THEN Listing("", Dots \o SelectSeq(CSeq, LAMBDA c : L.collages[c].exists))
    ELSE IF p.view = "Playlists" /\ Truthy(p.playlist)
    THEN LET tracks == PlaylistTracks(L, p.playlist)
             cover == L.playlists[p.playlist].cover
         IN Listing("", Dots
                \o [i \in 1..Len(tracks) |->
                       <<PosName(i), DOT, SP>> \o TrackFilename(tracks[i])]
                \o (IF cover # NONE THEN << <<"cover">> \o Suffix(cover) >> ELSE <<>>))
    ELSE IF p.view = "Playlists"
    THEN Listing("", Dots \o SelectSeq(PSeq, LAMBDA q : L.playlists[q].exists))
    ELSE Listing("ENOENT", Dots)


\* ------------------------------------------------- file handles and bytes
MaxFh == 2

Max(a, b) == IF a >= b THEN a ELSE b
Min(a, b) == IF a <= b THEN a ELSE b

\* next that hands the last handle out again.
next_reused(state) == Max(11, state + (1 % 1))

\* FileHandleManager.next: max(10, self._state + 1 % 10_000), where % binds
\* tighter than +.
next(state) == Max(10, state + (1 % 10000))

Handles == 11..(10 + MaxFh)

\* No entry of file_creation_special_ops, of _rose_to_host_map.
NoSop == [op |-> "none", ident |-> [type |-> "none", id |-> NONE], ext |-> <<>>, b |-> <<>>]
NoHost == [target |-> NONE, acc |-> "none", closed |-> FALSE]

\* The open flags: O_CREAT and the access mode.
Flags == [creat : BOOLEAN, acc : {"O_RDONLY", "O_WRONLY", "O_RDWR"}]

\* The bytes of an audio file: a header, then the tag that holds the track id.
HDR == "ftyp"
ALB == "alb"
Chunks == {<<HDR>>, <<"t1">>, <<HDR, "t2">>, <<"junk">>, <<ALB, "v1">>}

\* AudioTags.from_file(path).album after data has been written to the file:
\* the album tag that the bytes carry, the one the file had when they carry
\* none.
TagAlbum(old, data) ==
    IF Len(data) >= 2 /\ data[1] = ALB THEN data[2] ELSE old

\* AudioTags.from_file(path).id: the id tag of a file that has one.
TagId(b) ==
    IF Len(b) >= 2 /\ b[1] = HDR /\ <<b[2]>> \in TIds THEN <<b[2]>> ELSE NONE

\* del b[offset:]; b.extend(data)
WriteBuffer(b, offset, data) == SubSeq(b, 1, Min(offset, Len(b))) \o data

\* What open hands back: an error, or one new handle that either wraps a
\* host file (with the release to refresh at close) or starts a special op.
Opened(err, sop, host, upd) == [err |-> err, sop |-> sop, host |-> host, upd |-> upd]

OpenFails(err) == Opened(err, NoSop, NoHost, NONE)

\* os.open of a file of a release's source directory, and the bookkeeping
\* of the handle.
OpenHost(L, rel, target, flags) ==
    IF rel \notin L.srcDirs THEN OpenFails("ENOENT")
    ELSE Opened("", NoSop, [target |-> target, acc |-> flags.acc, closed |-> FALSE],
                IF flags.acc \in {"O_WRONLY", "O_RDWR"} /\ target \in TIds
                THEN rel ELSE NONE)

OpenSpecial(op, type, id, ext) ==
    Opened("", [op |-> op, ident |-> [type |-> type, id |-> id], ext |-> ext, b |-> <<>>],
           NoHost, NONE)

open_release(L, p, flags, err) ==
    LET id == get_release(L, p.release)
        tracks == FilterCached(L, ReleaseTracks(id))
        i == FirstNamed(tracks, p.file)
        cover == L.cache[id].cover
    IN
    IF Lower(Suffix(p.file)) \in SUPPORTED_AUDIO_EXTENSIONS /\ i # 0
    THEN OpenHost(L, id, tracks[i], flags)
    ELSE IF cover # NONE /\ p.file = <<"cover">> \o Suffix(cover)
    THEN OpenHost(L, id, cover, flags)
    ELSE IF Lower(p.file) \in ValidCoverArts /\ flags.creat
    THEN OpenSpecial("new-cover-art", "release", id, Suffix(p.file))
    ELSE OpenFails(err)

open_playlist(L, p, flags, err) ==
    IF ~playlist_exists(L, p.playlist) THEN OpenFails("ENOENT")
    ELSE
    LET tracks == PlaylistTracks(L, p.playlist)
        i == IF Truthy(p.file_position)
             THEN TrackAtPosition(tracks, p.file, p.file_position) ELSE 0
        cover == L.playlists[p.playlist].cover
    IN
    IF Lower(Suffix(p.file)) \in SUPPORTED_AUDIO_EXTENSIONS /\ flags.creat
    THEN OpenSpecial("add-track-to-playlist", "playlist", p.playlist, Suffix(p.file))
    ELSE IF Lower(p.file) \in ValidCoverArts /\ flags.creat
    THEN OpenSpecial("new-cover-art", "playlist", p.playlist, Suffix(p.file))
    ELSE IF i = -1 THEN OpenFails("ValueError")
    ELSE IF i > 0 THEN OpenHost(L, TrackRelease(tracks[i]), tracks[i], flags)
    ELSE IF cover # NONE /\ <<"cover">> \o Suffix(cover) = p.file
    THEN Opened("", NoSop, [target |-> cover, acc |-> flags.acc, closed |-> FALSE], NONE)
    ELSE OpenFails(err)

open(L, p, flags) ==
    LET err == IF flags.creat THEN "EACCES" ELSE "ENOENT" IN
    IF Truthy(p.release) /\ Truthy(p.file) /\ get_release(L, p.release) # NONE
    THEN open_release(L, p, flags, err)
    ELSE IF Truthy(p.playlist) /\ Truthy(p.file)
    THEN open_playlist(L, p, flags, err)
    ELSE OpenFails(err)

\* release of a handle of a file creation special op: the outcome on the
\* library, and whether the entry of the handle is deleted.
Released(o, done) == [lib |-> o.lib, err |-> o.err, calls |-> o.calls, done |-> done]

\* release that drops the buffered file without adding the track.
release_special_op_dropped(L, sop) == Released(Outcome(L, "", <<>>), TRUE)

release_special_op(L, sop) ==
    IF sop.b = <<>> THEN Released(Outcome(L, "", <<>>), FALSE)
    ELSE IF sop.op = "add-track-to-playlist"
    THEN LET track_id == TagId(sop.b) IN
         IF ~Truthy(track_id) THEN Released(Outcome(L, "", <<>>), FALSE)
         ELSE LET o == Called(add_track_to_playlist(L, sop.ident.id, track_id),
                              <<"add_track_to_playlist", sop.ident.id, track_id>>)
              IN Released(o, o.err = "")
    ELSE IF sop.ident.type = "release"
    THEN LET o == Called(set_release_cover_art(L, sop.ident.id, sop.ext),
                         <<"set_release_cover_art", sop.ident.id, sop.ext>>)
         IN Released(o, o.err = "")
    ELSE LET o == Called(set_playlist_cover_art(L, sop.ident.id, sop.ext),
                         <<"set_playlist_cover_art", sop.ident.id, sop.ext>>)
         IN Released(o, o.err = "")

\* release that closes the file and leaves the cache as it was.
release_host_stale(L, upd, host) ==
    Outcome(L, IF host = NoHost \/ host.closed THEN "EBADF" ELSE "", <<>>)

\* release of any other handle: the cache update of the release written to,
\* then unwrap_host and os.close.
release_host(L, upd, host) ==
    LET L2 == IF upd # NONE /\ get_release_source_path_from_id(L, upd) # NONE
              THEN update_cache_for_release(L, upd) ELSE L
    IN Outcome(L2, IF host = NoHost \/ host.closed THEN "EBADF" ELSE "", <<>>)


\* ------------------------------------------------ the paths of the syscalls
MaxOffset == 2
MaxHandleOps == 3
MaxState == 10001  \* opendir is called while _state is less
MaxClock == 5       \* seconds that the clock of the caches counts
MaxGhostOps == 3    \* syscalls per behaviour of the ghost specification
MaxCacheOps == 5    \* syscalls per behaviour of the cache specification
MaxCacheClock == 2  \* seconds that the clock counts in the cache specification
MaxDirs == 1       \* listings held at a time

nA == <<"A">>
nB == <<"B">>
nZ == <<"Z">>
nNewA == NewPrefix \o nA
nNewB == NewPrefix \o nB
nC == <<"C">>
nD == <<"D">>
nP == <<"P">>
nQ == <<"Q">>
fX == <<"x", DOT, "m4a">>
fY == <<"y", DOT, "m4a">>
fCover == <<"cover", DOT, "jpg">>
\* A name that is nothing but a position prefix: "1. "
fBare == <<"1", DOT, SP>>

Numbered(n, name) == <<n, DOT, SP>> \o name
Dated(name) == <<"[2023-01-01]", SP>> \o name

UnlinkPaths ==
    { <<V_PLAYLISTS, nP>>, <<V_PLAYLISTS, nQ>>,
      <<V_PLAYLISTS, nP, Numbered("1", fX)>>, <<V_PLAYLISTS, nP, Numbered("2", fX)>>,
      <<V_PLAYLISTS, nP, Numbered("2", fY)>>, <<V_PLAYLISTS, nP, Numbered("z", fX)>>,
      <<V_PLAYLISTS, nP, fX>>, <<V_PLAYLISTS, nP, fCover>>, <<V_PLAYLISTS, nQ, fCover>>,
      <<V_RELEASES, nB, fCover>>, <<V_RELEASES, nNewA, fCover>>,
      <<V_RELEASES, nNewA, Numbered("01", fX)>>, <<V_RELEASES, nB, Numbered("01", fY)>>,
      <<V_RELEASES, nB>>, <<V_COLLAGES, nC>>, <<V_COLLAGES, nC, Numbered("1", nNewA)>>,
      <<V_COLLAGES, nC, Numbered("1", nB), fCover>>, <<V_RELEASES>>, <<>> }

MkdirPaths ==
    { <<V_COLLAGES, nC>>, <<V_COLLAGES, nD>>, <<V_PLAYLISTS, nP>>, <<V_PLAYLISTS, nQ>>,
      <<V_COLLAGES, nC, nB>>, <<V_COLLAGES, nC, Numbered("1", nB)>>,
      <<V_COLLAGES, nC, Dated(nB)>>, <<V_COLLAGES, nC, nNewA>>,
      <<V_COLLAGES, nC, nZ>>, <<V_COLLAGES, nC, Numbered("1", nZ)>>,
      <<V_COLLAGES, nD, nB>>, <<V_COLLAGES, nC, nB, <<"sub">> >>,
      <<V_COLLAGES, nC, nZ, <<"sub">> >>,
      <<V_RELEASES, nZ>>, <<V_RELEASES, nB, <<"sub">> >>, <<V_PLAYLISTS, nP, <<"sub">> >>,
      <<V_RELEASES>>, <<V_COLLAGES>>, <<>> }

RmdirPaths ==
    { <<V_COLLAGES, nC>>, <<V_COLLAGES, nD>>,
      <<V_COLLAGES, nC, Numbered("1", nNewA)>>, <<V_COLLAGES, nC, Numbered("1", nB)>>,
      <<V_COLLAGES, nC, Numbered("1", nB), fBare>>,
      <<V_PLAYLISTS, nP>>, <<V_PLAYLISTS, nP, Numbered("1", fX)>>, <<V_PLAYLISTS, nP, fBare>>,
      <<V_RELEASES, nNewA>>, <<V_RELEASES, nB>>, <<V_RELEASES, nZ>>,
      <<V_NEW, nNewA>>, <<V_RECENT, Dated(nB)>>,
      <<V_RELEASES, nB, Numbered("01", fY)>>, <<V_RELEASES, nB, fBare>>,
      <<V_RELEASES>>, <<V_COLLAGES>>, <<V_PLAYLISTS>>, <<>> }

RenamePaths ==
    { <<V_RELEASES, nA>>, <<V_RELEASES, nNewA>>, <<V_RELEASES, nB>>, <<V_RELEASES, nNewB>>,
      <<V_NEW, nNewA>>, <<V_RELEASES, nNewA, fBare>>, <<V_RELEASES, nNewA, Numbered("01", fX)>>,
      <<V_COLLAGES, nC>>, <<V_COLLAGES, nD>>, <<V_COLLAGES, nC, fBare>>,
      <<V_COLLAGES, nC, Numbered("1", nNewA)>>,
      <<V_PLAYLISTS, nP>>, <<V_PLAYLISTS, nQ>>, <<V_PLAYLISTS, nP, fBare>>,
      <<V_PLAYLISTS, nP, Numbered("1", fX)>>, <<V_RELEASES>> }

\* What is unlinked while handles are open.
HandlePaths == { <<V_PLAYLISTS, nP>>, <<V_PLAYLISTS, nP, Numbered("1", fX)>> }

OpendirPaths ==
    { <<>>, <<V_RELEASES>>, <<V_RELEASES, nB>>, <<V_COLLAGES, nC>>,
      <<V_PLAYLISTS, nP>>, <<V_PLAYLISTS, nQ>> }

OpenPaths ==
    { <<V_PLAYLISTS, nP, fY>>, <<V_PLAYLISTS, nP, Numbered("2", fY)>>,
      <<V_PLAYLISTS, nP, Numbered("1", fX)>>, <<V_PLAYLISTS, nQ, fY>>,
      <<V_PLAYLISTS, nP, fCover>>, <<V_PLAYLISTS, nP, <<"notes", DOT, "txt">> >>,
      <<V_RELEASES, nB, Numbered("01", fY)>>,
      <<V_RELEASES, nNewA, fCover>>, <<V_RELEASES, nB>>, <<V_PLAYLISTS, nP>> }


\* ------------------------------------ the release mutators, step by step
\* Processes (the command line, the file system, the watcher) run the
\* mutators of releases.py at the same time; a step is one access to the
\* lock table, the source tree or the cache.
MaxTime == 4
MaxJobs == 2

Procs == {"p1", "p2"}

\* lock(c, name, timeout=1): the lifetime of the row of a lock, in ticks.
LockTimeout == 2

\* The metadata the editor hands back: the album title, the role of the
\* release artist, and for each track whether its entry is there.  The edits
\* are to the title, to the role of the release artist and to the last track
\* of r1; the document with the old title is the one that was rendered.
Docs ==
    { d \in [album : {"v0", "v1"}, rrole : {"main", "bogus"},
             trk : [TIds -> {"main", "missing"}]] :
        /\ d.trk[<<"t1">>] = "main" /\ d.trk[<<"t2">>] = "main"
        /\ d.album = "v0" => d.rrole = "main" /\ d.trk[<<"t3">>] = "main"
        /\ d.rrole = "bogus" => \A t \in TIds : d.trk[t] = "main" }

NoDoc == [album |-> "v0", rrole |-> "main", trk |-> [t \in TIds |-> "main"]]

NoJob == [op |-> "none", rel |-> NONE, err |-> "", data |-> FALSE, doc |-> NoDoc,
          i |-> 0, flushed |-> <<>>, blocked |-> 0]

MutatorOps == {"delete_release", "toggle_release_new", "set_release_cover_art",
               "remove_release_cover_art", "edit_release"}

\* The mutators that take the lock of the release.
LockingOps == {"delete_release", "toggle_release_new", "edit_release"}

InitMutators ==
    /\ pc = [p \in Procs |-> "idle"]
    /\ job = [p \in Procs |-> NoJob]
    /\ now = 1
    /\ locks = [r \in RIds |-> 0]
    /\ njobs = 0

\* MetadataArtist.to_mapping: the role must be an attribute of ArtistMapping.
to_mapping(role) == IF role = "main" THEN "" ELSE "UnknownArtistRoleError"

\* MetadataRelease equality of the edited document with the cached metadata.
Unedited(L, r, doc) ==
    /\ doc.album = L.cache[r].album
    /\ doc.rrole = "main"
    /\ \A t \in TIds : doc.trk[t] = "main"

\* The entry of a mutator up to the lock: resolve_release_ids, then
\* get_release_source_path_from_id; edit_release updates the cache first.
Start(p, op, r) ==
    /\ pc[p] = "idle"
    /\ njobs < MaxJobs
    /\ njobs' = njobs + 1
    /\ IF resolve_release_ids(Lib, r) = NONE
       THEN /\ pc' = [pc EXCEPT ![p] = "done"]
            /\ job' = [job EXCEPT ![p] = [NoJob EXCEPT !.op = op, !.rel = r,
                                                     !.err = "ReleaseDoesNotExistError"]]
            /\ UNCHANGED libVars
       ELSE /\ pc' = [pc EXCEPT ![p] = IF op \in LockingOps THEN "acquire" ELSE "write"]
            /\ job' = [job EXCEPT ![p] = [NoJob EXCEPT !.op = op,
                                                     !.rel = resolve_release_ids(Lib, r)]]
            /\ IF op = "edit_release"
               THEN SetLib(update_cache_for_release(Lib, resolve_release_ids(Lib, r)))
               ELSE UNCHANGED libVars
    /\ UNCHANGED <<now, locks>>
    /\ UNCHANGED <<vfsVars, idxVars, extVars>>

\* lock.__enter__: the row of the name is inserted once there is none that
\* is still valid.
Acquire(p) ==
    /\ pc[p] = "acquire"
    /\ locks[job[p].rel] < now
    /\ locks' = [locks EXCEPT ![job[p].rel] = now + LockTimeout]
    /\ pc' = [pc EXCEPT ![p] = "inside"]
    /\ UNCHANGED <<job, now, njobs, libVars, vfsVars, idxVars, extVars>>

\* Leaving the scope of the lock, by return or by an exception: the row is
\* deleted.
Leave(p, to, err) ==
    /\ locks' = [locks EXCEPT ![job[p].rel] = 0]
    /\ pc' = [pc EXCEPT ![p] = to]
    /\ job' = [job EXCEPT ![p].err = err]

\* delete_release inside the lock: send2trash(source_path).
Trash(p) ==
    /\ pc[p] = "inside" /\ job[p].op = "delete_release"
    /\ srcDirs' = srcDirs \ {job[p].rel}
    /\ Leave(p, "reindex", "")
    /\ UNCHANGED <<sidecarNew, srcCover, tags, cache, collages, playlists>>
    /\ UNCHANGED <<now, njobs, vfsVars, idxVars, extVars>>

\* toggle_release_new inside the lock: tomllib.load of the sidecar ...
Load(p) ==
    /\ pc[p] = "inside" /\ job[p].op = "toggle_release_new"
    /\ IF job[p].rel \in srcDirs
       THEN /\ job' = [job EXCEPT ![p].data = sidecarNew[job[p].rel]]
            /\ pc' = [pc EXCEPT ![p] = "store"]
            /\ UNCHANGED locks
       ELSE Leave(p, "done", "FileNotFoundError")
    /\ UNCHANGED <<now, njobs, libVars, vfsVars, idxVars, extVars>>

\* ... and tomli_w.dump of it with `new` flipped.
Store(p) ==
    /\ pc[p] = "store"
    /\ IF job[p].rel \in srcDirs
       THEN /\ sidecarNew' = [sidecarNew EXCEPT ![job[p].rel] = ~job[p].data]
            /\ Leave(p, "reindex", "")
       ELSE /\ Leave(p, "done", "FileNotFoundError")
            /\ UNCHANGED sidecarNew
    /\ UNCHANGED <<srcDirs, srcCover, tags, cache, collages, playlists>>
    /\ UNCHANGED <<now, njobs, vfsVars, idxVars, extVars>>

\* edit_release inside the lock, up to the loop: get_release, click.edit
\* and the comparison of what the editor hands back with the original.
Editor(p, doc) ==
    /\ pc[p] = "inside" /\ job[p].op = "edit_release"
    /\ IF get_release(Lib, job[p].rel) = NONE
       THEN Leave(p, "done", "ReleaseDoesNotExistError")
       ELSE IF Unedited(Lib, job[p].rel, doc)
       THEN Leave(p, "done", "")
       ELSE /\ job' = [job EXCEPT ![p].doc = doc, ![p].i = 1]
            /\ pc' = [pc EXCEPT ![p] = "apply"]
            /\ UNCHANGED locks
    /\ UNCHANGED <<now, njobs, libVars, vfsVars, idxVars, extVars>>

\* What one round of the loop over the tracks raises, "" when it gets to
\* the flush: release_meta.tracks[t.id], AudioTags.from_file, to_mapping of
\* the track artists, to_mapping of the release artists.
ApplyError(L, r, t, doc) ==
    IF doc.trk[t] = "missing" THEN "KeyError"
    ELSE IF r \notin L.srcDirs THEN "FileNotFoundError"
    ELSE IF to_mapping(doc.trk[t]) # "" THEN to_mapping(doc.trk[t])
    ELSE to_mapping(doc.rrole)

\* One round of the loop of edit_release: the tags of one track are set and,
\* when one of them changed, flushed.
Apply(p) ==
    /\ pc[p] = "apply"
    /\ LET r == job[p].rel
           tracks == ReleaseTracks(r)
           t == tracks[job[p].i]
           err == ApplyError(Lib, r, t, job[p].doc)
           dirty == tags[t] # job[p].doc.album
       IN IF err # ""
          THEN /\ Leave(p, "done", err)
               /\ UNCHANGED tags
          ELSE /\ tags' = IF dirty THEN [tags EXCEPT ![t] = job[p].doc.album] ELSE tags
               /\ IF job[p].i = Len(tracks)
                  THEN /\ locks' = [locks EXCEPT ![r] = 0]
                       /\ pc' = [pc EXCEPT ![p] = "reindex"]
                  ELSE UNCHANGED <<locks, pc>>
               /\ job' = [job EXCEPT ![p].i = @ + 1,
                                     ![p].flushed = IF dirty THEN Append(@, t) ELSE @]
    /\ UNCHANGED <<srcDirs, sidecarNew, srcCover, cache, collages, playlists>>
    /\ UNCHANGED <<now, njobs, vfsVars, idxVars, extVars>>

\* set_release_cover_art: the cover arts of the directory are trashed and
\* the new one is copied to cover<suffix>.
WriteCover(p) ==
    /\ pc[p] = "write" /\ job[p].op = "set_release_cover_art"
    /\ IF job[p].rel \in srcDirs
       THEN /\ srcCover' = [srcCover EXCEPT ![job[p].rel] = <<"cover", DOT, "png">>]
            /\ pc' = [pc EXCEPT ![p] = "reindex"]
            /\ UNCHANGED job
       ELSE /\ pc' = [pc EXCEPT ![p] = "done"]
            /\ job' = [job EXCEPT ![p].err = "FileNotFoundError"]
            /\ UNCHANGED srcCover
    /\ UNCHANGED <<srcDirs, sidecarNew, tags, cache, collages, playlists>>
    /\ UNCHANGED <<now, locks, njobs, vfsVars, idxVars, extVars>>

\* remove_release_cover_art: the cover arts of the directory are trashed.
RemoveCover(p) ==
    /\ pc[p] = "write" /\ job[p].op = "remove_release_cover_art"
    /\ IF job[p].rel \in srcDirs
       THEN /\ srcCover' = [srcCover EXCEPT ![job[p].rel] = NONE]
            /\ pc' = [pc EXCEPT ![p] = "reindex"]
            /\ UNCHANGED job
       ELSE /\ pc' = [pc EXCEPT ![p] = "done"]
            /\ job' = [job EXCEPT ![p].err = "FileNotFoundError"]
            /\ UNCHANGED srcCover
    /\ UNCHANGED <<srcDirs, sidecarNew, tags, cache, collages, playlists>>
    /\ UNCHANGED <<now, locks, njobs, vfsVars, idxVars, extVars>>

\* A mutator that returns without the cache update that ends it.
Reindex_skipped(p) ==
    /\ pc[p] = "reindex"
    /\ pc' = [pc EXCEPT ![p] = "done"]
    /\ UNCHANGED <<job, now, locks, njobs, libVars, vfsVars, idxVars, extVars>>

\* The cache update that ends a mutator.
Reindex(p) ==
    /\ pc[p] = "reindex"
    /\ SetLib(IF job[p].op = "delete_release"
              THEN update_cache_for_collages(update_cache_evict_nonexistent_releases(Lib))
              ELSE update_cache_for_release(Lib, job[p].rel))
    /\ pc' = [pc EXCEPT ![p] = "done"]
    /\ UNCHANGED <<job, now, locks, njobs, vfsVars, idxVars, extVars>>

\* The mutator returns, or raises job[p].err, to its caller.
Finish(p) ==
    /\ pc[p] = "done"
    /\ pc' = [pc EXCEPT ![p] = "idle"]
    /\ job' = [job EXCEPT ![p] = NoJob]
    /\ UNCHANGED <<now, locks, njobs, libVars, vfsVars, idxVars, extVars>>

\* RoseLogicalCore.rename on a worker thread, for a rename that toggles the
\* new status of a release: toggle_release_new(old.release) is entered, with
\* the virtual directory name, while other threads are in theirs.
RenameToggle(p, old, new) ==
    /\ Truthy(Parse(old, TRUE).release) /\ Truthy(Parse(new, TRUE).release)
    /\ RemovePrefix(Parse(old, TRUE).release, NewPrefix)
           = RemovePrefix(Parse(new, TRUE).release, NewPrefix)
    /\ ~Truthy(Parse(old, TRUE).file) /\ ~Truthy(Parse(new, TRUE).file)
    /\ StartsWith(Parse(old, TRUE).release, NewPrefix)
           # StartsWith(Parse(new, TRUE).release, NewPrefix)
    /\ Start(p, "toggle_release_new", Parse(old, TRUE).release)

\* Time passes; a process that polls a lock whose row is still valid goes on
\* sleeping.
Tick ==
    /\ now < MaxTime
    /\ now' = now + 1
    /\ job' = [p \in Procs |->
                 IF pc[p] = "acquire" /\ locks[job[p].rel] >= now
                 THEN [job[p] EXCEPT !.blocked = @ + 1] ELSE job[p]]
    /\ UNCHANGED <<pc, locks, njobs, libVars, vfsVars, idxVars, extVars>>

NextMutators ==
    \/ \E p \in Procs, op \in MutatorOps, r \in RIds : Start(p, op, r)
    \/ \E p \in Procs : Acquire(p)
    \/ \E p \in Procs : Trash(p)
    \/ \E p \in Procs : Load(p)
    \/ \E p \in Procs : Store(p)
    \/ \E p \in Procs, doc \in Docs : Editor(p, doc)
    \/ \E p \in Procs : Apply(p)
    \/ \E p \in Procs : WriteCover(p)
    \/ \E p \in Procs : RemoveCover(p)
    \/ \E p \in Procs : Reindex(p)
    \/ \E p \in Procs : Finish(p)
    \/ Tick

\* ------------------------------------------------ the incremental indexer
\* The source tree as the indexer sees it: release directories, each with the
\* id of its sidecar .rose.{id}.toml (NONE for no sidecar), the `new` key of
\* the sidecar and the album title of its tags; one collage TOML and one
\* playlist TOML.  A release has one track, whose id tag is TrackOf(id);
\* `tagged` is the release id that the tags of the track carry, NONE before
\* the directory has been indexed.
MaxScans == 6
MaxRuns == 2
MaxInode == 5

DirNames == {"d1", "d2", "d3"}

\* The order in which a scan of the source takes the directories.
DirOrder == <<"d1", "d2", "d3">>

I1 == <<"i1">>
I2 == <<"i2">>

\* uuid4(), the ids a mint hands out, in the order it does.
MintIds == << <<"m1">>, <<"m2">>, <<"m3">> >>

TrackOf(id) == <<"t">> \o id

NoRelDir == [there |-> FALSE, sidecar |-> NONE, tagged |-> NONE, title |-> "", new |-> FALSE]

\* The release directories that are copied into the source: two that carry
\* a sidecar and one, a copy of the first, that carries none.
Copies ==
    { [there |-> TRUE, sidecar |-> I1, tagged |-> I1, title |-> "X", new |-> TRUE],
      [there |-> TRUE, sidecar |-> I2, tagged |-> I2, title |-> "Y", new |-> FALSE],
      [there |-> TRUE, sidecar |-> NONE, tagged |-> NONE, title |-> "X", new |-> TRUE] }

Kinds == {"collage", "playlist"}

\* The source tree and the cache as one value, for the indexer.
Idx == [disk |-> diskDirs, rows |-> relRows, tomls |-> tomlFiles, entries |-> entryRows]

SetIdx(S) ==
    /\ diskDirs' = S.disk
    /\ relRows' = S.rows
    /\ tomlFiles' = S.tomls
    /\ entryRows' = S.entries

IndexedIds(S) == {r.id : r \in S.rows}

Sidecars(S) == {S.disk[d].sidecar : d \in {e \in DirNames : S.disk[e].there}} \ {NONE}

TaggedIds(S) == {S.disk[d].tagged : d \in {e \in DirNames : S.disk[e].there}} \ {NONE}

UsedIds(S) ==
    IndexedIds(S) \cup Sidecars(S) \cup TaggedIds(S)
        \cup {S.tomls["collage"][i].uuid : i \in 1..Len(S.tomls["collage"])}

\* A new id: the first one that nothing carries yet.
Mint(S) ==
    MintIds[CHOOSE i \in 1..Len(MintIds) :
                /\ MintIds[i] \notin UsedIds(S)
                /\ \A j \in 1..(i - 1) : MintIds[j] \in UsedIds(S)]

\* "{NEW} " when new, then the formatted name.
FormatName(dir) == (IF dir.new THEN NewPrefix ELSE <<>>) \o <<dir.title>>

NumAtoms == <<"1", "2", "3", "4", "5">>

\* Disambiguation that tries " [2]" and nothing after it.
Disambiguate_once(base, taken, n) ==
    IF base \in taken THEN base \o <<SP, "[", "2", "]">> ELSE base

\* The name with " [n]" appended, for the first n from 2 on that makes it
\* differ from the names taken; the bare name when it is free.
RECURSIVE Disambiguate(_, _, _)
Disambiguate(base, taken, n) ==
    LET name == IF n = 1 THEN base ELSE base \o <<SP, "[", NumAtoms[n], "]">>
    IN IF name \in taken THEN Disambiguate(base, taken, n + 1) ELSE name

\* Release indexing that takes a release it has a row for as up to date
\* wherever its directory is.
index_release_path_kept(S, d, force) ==
    LET dir == S.disk[d]
        partial == dir.sidecar = NONE /\ dir.tagged # NONE
        id == IF dir.sidecar # NONE THEN dir.sidecar
              ELSE IF dir.tagged # NONE THEN dir.tagged
              ELSE Mint(S)
        dir2 == IF dir.sidecar = NONE
                THEN [dir EXCEPT !.sidecar = id, !.tagged = id, !.new = TRUE]
                ELSE [dir EXCEPT !.tagged = id]
        uptodate == \E r \in S.rows :
                        r.id = id /\ r.title = dir2.title /\ r.new = dir2.new
        others == {r \in S.rows : r.id # id}
        row == [id |-> id, source_path |-> d, title |-> dir2.title, new |-> dir2.new,
                virtual_dirname |->
                    Disambiguate(FormatName(dir2),
                                 {r.virtual_dirname : r \in others}, 1)]
    IN IF ~dir.there THEN S
       ELSE IF ~force /\ partial THEN S
       ELSE IF ~force /\ uptodate THEN S
       ELSE [S EXCEPT !.disk[d] = dir2, !.rows = others \cup {row}]

\* index_release that does not look for the release id in the tags of a
\* directory without sidecar.
index_release_partial_indexed(S, d, force) ==
    LET dir == S.disk[d]
        partial == dir.sidecar = NONE /\ dir.tagged # NONE
        id == IF dir.sidecar # NONE THEN dir.sidecar
              ELSE IF dir.tagged # NONE THEN dir.tagged
              ELSE Mint(S)
        dir2 == IF dir.sidecar = NONE
                THEN [dir EXCEPT !.sidecar = id, !.tagged = id, !.new = TRUE]
                ELSE [dir EXCEPT !.tagged = id]
        uptodate == \E r \in S.rows :
                        /\ r.id = id /\ r.source_path = d
                        /\ r.title = dir2.title /\ r.new = dir2.new
        others == {r \in S.rows : r.id # id}
        row == [id |-> id, source_path |-> d, title |-> dir2.title, new |-> dir2.new,
                virtual_dirname |->
                    Disambiguate(FormatName(dir2),
                                 {r.virtual_dirname : r \in others}, 1)]
    IN IF ~dir.there THEN S
       ELSE IF ~force /\ uptodate THEN S
       ELSE [S EXCEPT !.disk[d] = dir2, !.rows = others \cup {row}]

\* The release indexing algorithm for one directory.  A directory whose
\* files carry a release id and whose sidecar is absent is one that is being
\* written: it is left alone, unless forced, and then the sidecar is written
\* again for the id of the tags.
index_release(S, d, force) ==
    LET dir == S.disk[d]
        partial == dir.sidecar = NONE /\ dir.tagged # NONE
        id == IF dir.sidecar # NONE THEN dir.sidecar
              ELSE IF dir.tagged # NONE THEN dir.tagged
              ELSE Mint(S)
        dir2 == IF dir.sidecar = NONE
                THEN [dir EXCEPT !.sidecar = id, !.tagged = id, !.new = TRUE]
                ELSE [dir EXCEPT !.tagged = id]
        uptodate == \E r \in S.rows :
                        /\ r.id = id /\ r.source_path = d
                        /\ r.title = dir2.title /\ r.new = dir2.new
        others == {r \in S.rows : r.id # id}
        row == [id |-> id, source_path |-> d, title |-> dir2.title, new |-> dir2.new,
                virtual_dirname |->
                    Disambiguate(FormatName(dir2),
                                 {r.virtual_dirname : r \in others}, 1)]
    IN IF ~dir.there THEN S
       ELSE IF ~force /\ partial THEN S
       ELSE IF ~force /\ uptodate THEN S
       ELSE [S EXCEPT !.disk[d] = dir2, !.rows = others \cup {row}]

RECURSIVE index_releases(_, _, _)
index_releases(S, paths, force) ==
    IF paths = <<>> THEN S
    ELSE index_releases(index_release(S, Head(paths), force), Tail(paths), force)

\* Rows whose source_path is no longer there are removed.
evict_nonexistent_releases(S) ==
    [S EXCEPT !.rows = {r \in S.rows : S.disk[r.source_path].there}]

\* The uuid is in the releases table, for a playlist in the tracks table.
EntryExists(S, kind, uuid) ==
    IF kind = "collage" THEN uuid \in IndexedIds(S)
    ELSE uuid \in {TrackOf(id) : id \in IndexedIds(S)}

\* Collage indexing, and playlist indexing: missing is unset on an entry
\* whose uuid exists and set on any other, the TOML is written back, and the
\* rows are inserted in the order of the list.
index_toml(S, kind) ==
    LET flagged == [i \in 1..Len(S.tomls[kind]) |->
                       [uuid |-> S.tomls[kind][i].uuid,
                        missing |-> ~EntryExists(S, kind, S.tomls[kind][i].uuid)]]
    IN [S EXCEPT !.tomls[kind] = flagged, !.entries[kind] = flagged]

\* update_cache that indexes the collages and the playlists first.
update_cache_tomls_first(S, force) ==
    evict_nonexistent_releases(
        index_releases(index_toml(index_toml(S, "collage"), "playlist"), DirOrder, force))

\* update_cache: releases, then collages, then playlists.
update_cache(S, force) ==
    index_toml(index_toml(evict_nonexistent_releases(index_releases(S, DirOrder, force)),
                          "collage"), "playlist")

InitIndexer ==
    /\ diskDirs = [d \in DirNames |->
                     IF d = "d1" THEN [there |-> TRUE, sidecar |-> I1, tagged |-> I1,
                                       title |-> "X", new |-> TRUE]
                     ELSE NoRelDir]
    /\ relRows = { [id |-> I1, source_path |-> "d1", title |-> "X", new |-> TRUE,
                    virtual_dirname |-> <<NEWTAG, SP, "X">>] }
    /\ tomlFiles = [k \in Kinds |->
                      << [uuid |-> IF k = "collage" THEN I1 ELSE TrackOf(I1),
                          missing |-> FALSE] >>]
    /\ entryRows = tomlFiles
    /\ scan = [op |-> "update_cache", force |-> FALSE]
    /\ nscans = 0

IdxReady == nscans < MaxScans

IdxDone(op, force) ==
    /\ scan' = [op |-> op, force |-> force]
    /\ nscans' = nscans + 1
    /\ UNCHANGED <<libVars, vfsVars, mutVars, extVars>>

\* A release directory is copied into the source.
CopyRelease(d, c) ==
    /\ IdxReady
    /\ ~diskDirs[d].there
    /\ c.sidecar \notin Sidecars(Idx) \cup TaggedIds(Idx)
    /\ c.sidecar = NONE =>
          Cardinality({i \in 1..Len(MintIds) : MintIds[i] \notin UsedIds(Idx)})
              > Cardinality({e \in DirNames : diskDirs[e].there /\ diskDirs[e].sidecar = NONE})
    /\ diskDirs' = [diskDirs EXCEPT ![d] = c]
    /\ UNCHANGED <<relRows, tomlFiles, entryRows>>
    /\ IdxDone("copy", FALSE)

\* A release directory is renamed.
RenameDir(d, e) ==
    /\ IdxReady
    /\ diskDirs[d].there /\ ~diskDirs[e].there
    /\ diskDirs' = [diskDirs EXCEPT ![e] = diskDirs[d], ![d] = NoRelDir]
    /\ UNCHANGED <<relRows, tomlFiles, entryRows>>
    /\ IdxDone("rename", FALSE)

\* A release directory is removed.
RemoveDir(d) ==
    /\ IdxReady
    /\ diskDirs[d].there
    /\ diskDirs' = [diskDirs EXCEPT ![d] = NoRelDir]
    /\ UNCHANGED <<relRows, tomlFiles, entryRows>>
    /\ IdxDone("remove", FALSE)

\* The sidecar of a release directory is moved away, or deleted.
HideSidecar(d) ==
    /\ IdxReady
    /\ diskDirs[d].there /\ diskDirs[d].sidecar # NONE
    /\ diskDirs' = [diskDirs EXCEPT ![d].sidecar = NONE]
    /\ UNCHANGED <<relRows, tomlFiles, entryRows>>
    /\ IdxDone("hide_sidecar", FALSE)

\* The sidecar that was moved away is put back.
RestoreSidecar(d) ==
    /\ IdxReady
    /\ diskDirs[d].there /\ diskDirs[d].sidecar = NONE /\ diskDirs[d].tagged # NONE
    /\ diskDirs' = [diskDirs EXCEPT ![d].sidecar = diskDirs[d].tagged]
    /\ UNCHANGED <<relRows, tomlFiles, entryRows>>
    /\ IdxDone("restore_sidecar", FALSE)

\* An entry that is not there yet is written at the end of a TOML.
WriteToml(kind, id) ==
    /\ IdxReady
    /\ LET uuid == IF kind = "collage" THEN id ELSE TrackOf(id) IN
       /\ \A i \in 1..Len(tomlFiles[kind]) : tomlFiles[kind][i].uuid # uuid
       /\ tomlFiles' = [tomlFiles EXCEPT ![kind] = Append(@, [uuid |-> uuid, missing |-> FALSE])]
    /\ UNCHANGED <<diskDirs, relRows, entryRows>>
    /\ IdxDone("write_toml", FALSE)

UpdateCache(force) ==
    /\ IdxReady
    /\ SetIdx(update_cache(Idx, force))
    /\ IdxDone("update_cache", force)

\* update_cache_for_releases(c, [d])
UpdateCacheForReleases(d) ==
    /\ IdxReady
    /\ SetIdx(index_releases(Idx, <<d>>, FALSE))
    /\ IdxDone("update_cache_for_releases", FALSE)

NextIndexer ==
    \/ \E d \in DirNames, c \in Copies : CopyRelease(d, c)
    \/ \E d, e \in DirNames : RenameDir(d, e)
    \/ \E d \in DirNames : RemoveDir(d)
    \/ \E d \in DirNames : HideSidecar(d)
    \/ \E d \in DirNames : RestoreSidecar(d)
    \/ \E kind \in Kinds, id \in {I1, I2} : WriteToml(kind, id)
    \/ \E force \in BOOLEAN : UpdateCache(force)
    \/ \E d \in DirNames : UpdateCacheForReleases(d)

\* ------------------------------------------------------------ the mount
\* The library the file system is mounted on: release r1 ("A", new, no
\* cover), release r2 ("B", with a cover), collage C holding r1, playlist P
\* holding t1; the cache is up to date and no handle is open.
Idle == [op |-> "idle", args |-> <<>>, err |-> "", calls |-> <<>>, fh |-> 0]

\* ==================================================== the release metadata TOML
\* MetadataRelease, MetadataArtist and MetadataTrack are records.  An
\* optional integer is a record of its own: None, or an int.
None == [none |-> TRUE, val |-> 0]
Some(n) == [none |-> FALSE, val |-> n]

\* The sentinel that serialize writes for a year that is None.
YEAR_SENTINEL == 0 - 9999

Years == {None} \cup {Some(n) : n \in {YEAR_SENTINEL, 0 - 1, 0, 1, 1990}}

MetadataArtists == { [name |-> "NewJeans", role |-> "main"] }

MetadataTracks ==
    { [disc_number |-> "1", track_number |-> "1", title |-> "Track 1", artists |-> a] :
        a \in { <<>>, <<[name |-> "NewJeans", role |-> "main"]>> } }

MetadataReleases ==
    { [title |-> "I Love NewJeans", releasetype |-> rt, year |-> y,
       genres |-> g, labels |-> <<>>, artists |-> a, tracks |-> t] :
        rt \in {"album", "single"}, y \in Years,
        g \in { <<>>, <<"K-Pop">> },
        a \in { <<>>, <<[name |-> "NewJeans", role |-> "main"]>> },
        t \in { <<>> } \cup { (<<"t1">> :> mt) : mt \in MetadataTracks } }

\* Python's `x or d` on an optional int: None and 0 are falsy.
PyOr(x, d) == IF x.none \/ x.val = 0 THEN d ELSE x.val

\* MetadataRelease.serialize: asdict(self), with data["year"] replaced, dumped
\* as TOML.  The document is the table that tomllib.loads gives back, in
\* which the year is an integer.
serialize(x) ==
    [title |-> x.title, releasetype |-> x.releasetype,
     year |-> PyOr(x.year, YEAR_SENTINEL),
     genres |-> x.genres, labels |-> x.labels,
     artists |-> [i \in 1..Len(x.artists) |->
                     [name |-> x.artists[i].name, role |-> x.artists[i].role]],
     tracks |-> [tid \in DOMAIN x.tracks |->
                    [disc_number |-> x.tracks[tid].disc_number,
                     track_number |-> x.tracks[tid].track_number,
                     title |-> x.tracks[tid].title,
                     artists |-> [i \in 1..Len(x.tracks[tid].artists) |->
                                     [name |-> x.tracks[tid].artists[i].name,
                                      role |-> x.tracks[tid].artists[i].role]]]]]

\* MetadataRelease.from_toml
from_toml(d) ==
    [title |-> d.title, releasetype |-> d.releasetype,
     year |-> IF d.year # YEAR_SENTINEL THEN Some(d.year) ELSE None,
     genres |-> d.genres, labels |-> d.labels,
     artists |-> [i \in 1..Len(d.artists) |->
                     [name |-> d.artists[i].name, role |-> d.artists[i].role]],
     tracks |-> [tid \in DOMAIN d.tracks |->
                    [track_number |-> d.tracks[tid].track_number,
                     disc_number |-> d.tracks[tid].disc_number,
                     title |-> d.tracks[tid].title,
                     artists |-> [i \in 1..Len(d.tracks[tid].artists) |->
                                     [name |-> d.tracks[tid].artists[i].name,
                                      role |-> d.tracks[tid].artists[i].role]]]]]

NotYet == [done |-> FALSE]

InitToml ==
    /\ mrel = CHOOSE x \in MetadataReleases : x.year = None /\ x.tracks = <<>>
                                               /\ x.genres = <<>> /\ x.artists = <<>>
                                               /\ x.releasetype = "album"
    /\ mtoml = NotYet
    /\ mback = NotYet

InitTomlAny ==
    /\ mrel \in MetadataReleases
    /\ mtoml = NotYet
    /\ mback = NotYet

Serialize ==
    /\ ~mtoml.done
    /\ mtoml' = [done |-> TRUE, toml |-> serialize(mrel)]
    /\ UNCHANGED <<mrel, mback, libVars, vfsVars, mutVars, idxVars, ruleVars, inoVars>>

FromToml ==
    /\ mtoml.done /\ ~mback.done
    /\ mback' = [done |-> TRUE, release |-> from_toml(mtoml.toml)]
    /\ UNCHANGED <<mrel, mtoml, libVars, vfsVars, mutVars, idxVars, ruleVars, inoVars>>

NextToml == Serialize \/ FromToml

\* ============================================================ the rules engine
\* rose/rules.py.  A tag value is a string, a tuple of atoms, or NONE; the
\* tags of a track are a record of the fields tracktitle, year, releasetype,
\* genre and label, the year an optional int, the genre and the label lists.
RuleTracks == << <<"t1">>, <<"t2">>, <<"t3">> >>

kpop == <<"k", "pop">>
KPop == <<"K-", "Pop">>

\* What is on disk before the first run.
InitTags ==
    [t \in TIds |->
        CASE t = <<"t1">> -> [title |-> kpop, year |-> Some(1990),
                              release_type |-> <<"album">>, genre |-> <<kpop, KPop>>,
                              label |-> <<>>]
          [] t = <<"t2">> -> [title |-> KPop, year |-> None,
                              release_type |-> <<"single">>, genre |-> <<kpop>>,
                              label |-> <<kpop>>]
          [] OTHER -> [title |-> NONE, year |-> Some(2000),
                       release_type |-> <<"album">>,
                       genre |-> << kpop \o <<";", SP>> \o KPop >>,
                       label |-> <<>>]]

\* Another library: the release of t2 has a label and no genre, and the
\* genre of t3 ends with a delimiter and a blank.
OtherTags ==
    [InitTags EXCEPT ![<<"t2">>].genre = <<>>,
                     ![<<"t3">>].genre = << kpop \o <<";", SP>> >>]

\* The rows of the read cache: what the indexer saw, which for the last
\* track is not what is on disk any more.
CacheOf(disk) == [disk EXCEPT ![<<"t3">>].title = kpop]

RuleCache == CacheOf(InitTags)

\* str(n) and int(s) on the years of the model; int raises ValueError on a
\* string that is no number, for which -1 stands.
StrOfYear(n) ==
    CASE n = 1990 -> <<"19", "90">>
      [] n = 2000 -> <<"20", "00">>
      [] n = 0 -> <<"0">>
      [] OTHER -> <<"?">>

IntOfYear(s) ==
    CASE s = <<"19", "90">> -> 1990
      [] s = <<"20", "00">> -> 2000
      [] s = <<"00">> -> 0
      [] s = <<"0">> -> 0
      [] OTHER -> 0 - 1

EndsWith(s, suf) ==
    Len(s) >= Len(suf) /\ SubSeq(s, Len(s) - Len(suf) + 1, Len(s)) = suf

\* `m in s`
Contains(s, m) ==
    \E i \in 1..(Len(s) + 1) : i + Len(m) - 1 <= Len(s) /\ SubSeq(s, i, i + Len(m) - 1) = m

\* The matcher without its anchors.
StrictStart(m) == StartsWith(m, <<"^">>)
StrictEnd(m) == EndsWith(m, <<"$">>)
Unanchored(m) ==
    LET a == IF StrictStart(m) THEN Tail(m) ELSE m
    IN IF EndsWith(a, <<"$">>) THEN SubSeq(a, 1, Len(a) - 1) ELSE a

\* matchrule.replace("%", r"\%").replace("_", r"\_")
RECURSIVE Escape(_)
Escape(s) ==
    IF s = <<>> THEN <<>>
    ELSE (IF Head(s) \in {"%", "_"} THEN <<"\\", Head(s)>> ELSE <<Head(s)>>) \o Escape(Tail(s))

\* matches_rule with the text of the pattern looked for as it is.
matches_rule_literal(rule, x) ==
    LET m == rule.matcher IN
    IF StrictStart(m) /\ StrictEnd(m) THEN x = SubSeq(m, 2, Len(m) - 1)
    ELSE IF StrictStart(m) THEN StartsWith(x, Tail(m))
    ELSE IF StrictEnd(m) THEN EndsWith(x, SubSeq(m, 1, Len(m) - 1))
    ELSE Contains(x, Unanchored(m))

\* matches_rule(x), the Python matcher: without an anchor it looks for
\* matchrule, which by then is the escaped pattern of the SQL query.
matches_rule(rule, x) ==
    LET m == rule.matcher IN
    IF StrictStart(m) /\ StrictEnd(m) THEN x = SubSeq(m, 2, Len(m) - 1)
    ELSE IF StrictStart(m) THEN StartsWith(x, Tail(m))
    ELSE IF StrictEnd(m) THEN EndsWith(x, SubSeq(m, 1, Len(m) - 1))
    ELSE Contains(x, Escape(Unanchored(m)))

\* `column LIKE matchsql`: the anchors of the matcher decide where the % go,
\* LIKE does not look at the case, and a NULL column matches nothing.
Like(rule, x) ==
    LET m == rule.matcher
        a == IF StrictStart(m) THEN Tail(m) ELSE m
        atEnd == EndsWith(a, <<"$">>)
        pat == Lower(Unanchored(m))
        v == Lower(x)
    IN /\ x # NONE
       /\ IF StrictStart(m) /\ atEnd THEN v = pat
          ELSE IF StrictStart(m) THEN StartsWith(v, pat)
          ELSE IF atEnd THEN EndsWith(v, pat)
          ELSE Contains(v, pat)

\* The rl rows that `LEFT JOIN releases_labels rl ON rg.release_id = r.id`
\* puts next to the row of a track: the condition does not name rl, so with
\* a genre row at hand every row of releases_labels is joined, and without
\* one the only rl row is the NULL row.
JoinedLabels(row) ==
    IF row.genre = <<>> THEN {}
    ELSE UNION { Elems(rcache[t].label) : t \in TIds }

\* The WHERE clause of the query, on the row of one track.
Selected(rule, row) ==
    \E i \in 1..Len(rule.tags) :
        \/ rule.tags[i] = "tracktitle" /\ Like(rule, row.title)
        \/ rule.tags[i] = "year"
               /\ Like(rule, IF row.year.none THEN <<>> ELSE StrOfYear(row.year.val))
        \/ rule.tags[i] = "releasetype" /\ Like(rule, row.release_type)
        \/ rule.tags[i] = "genre"
               /\ \E j \in 1..Len(row.genre) : Like(rule, row.genre[j])
        \/ rule.tags[i] = "label" /\ \E l \in JoinedLabels(row) : Like(rule, l)

\* track_paths, ordered by source_path.
TrackPaths(rule) ==
    SelectSeq(RuleTracks, LAMBDA t : Selected(rule, rcache[t]))

Val(v) == [err |-> "", val |-> v]
Raise(e) == [err |-> e, val |-> NONE]

\* re.sub of a pattern that is one literal atom.
RECURSIVE Sub(_, _, _)
Sub(src, dst, s) ==
    IF s = <<>> THEN <<>>
    ELSE (IF Head(s) = src THEN dst ELSE <<Head(s)>>) \o Sub(src, dst, Tail(s))

\* execute_single_action that puts the replacement in front of the value.
execute_single_action_prepends(rule, value) ==
    IF ~matches_rule(rule, IF Truthy(value) THEN value ELSE <<>>) THEN Val(value)
    ELSE IF rule.action.kind = "replace"
    THEN Val(rule.action.replacement \o (IF Truthy(value) THEN value ELSE <<>>))
    ELSE IF rule.action.kind = "sed"
    THEN (IF ~Truthy(value) THEN Val(value)
          ELSE Val(Sub(rule.action.src, rule.action.dst, value)))
    ELSE IF rule.action.kind = "delete" THEN Val(NONE)
    ELSE Raise("InvalidRuleActionError")

execute_single_action(rule, value) ==
    IF ~matches_rule(rule, IF Truthy(value) THEN value ELSE <<>>) THEN Val(value)
    ELSE IF rule.action.kind = "replace" THEN Val(rule.action.replacement)
    ELSE IF rule.action.kind = "sed"
    THEN (IF ~Truthy(value) THEN Val(value)
          ELSE Val(Sub(rule.action.src, rule.action.dst, value)))
    ELSE IF rule.action.kind = "delete" THEN Val(NONE)
    ELSE Raise("InvalidRuleActionError")

\* str.strip() of the blanks at the two ends.
RECURSIVE Strip(_)
Strip(s) ==
    IF s # <<>> /\ Head(s) = SP THEN Strip(Tail(s))
    ELSE IF s # <<>> /\ s[Len(s)] = SP THEN Strip(SubSeq(s, 1, Len(s) - 1))
    ELSE s

\* v.split(delimiter), the parts that are not empty, each stripped.
RECURSIVE SplitParts(_, _, _)
SplitParts(s, delim, part) ==
    LET out == IF part # <<>> THEN <<Strip(part)>> ELSE <<>> IN
    IF s = <<>> THEN out
    ELSE IF Head(s) = delim THEN out \o SplitParts(Tail(s), delim, <<>>)
    ELSE SplitParts(Tail(s), delim, Append(part, Head(s)))

\* One value of the list: what stands in its place.
MultiValue(rule, v, one) ==
    IF ~matches_rule(rule, v) THEN Val(<<v>>)
    ELSE IF one.err = "" THEN Val(IF Truthy(one.val) THEN <<one.val>> ELSE <<>>)
    ELSE IF rule.action.kind = "split" THEN Val(SplitParts(v, rule.action.delimiter, <<>>))
    ELSE Raise("InvalidRuleActionError")

MultiJoin(here, rest) ==
    IF here.err # "" THEN here
    ELSE IF rest.err # "" THEN rest
    ELSE Val(here.val \o rest.val)

\* The loop over the values, from the i-th on.
RECURSIVE MultiValues(_, _, _)
MultiValues(rule, values, i) ==
    IF i > Len(values) THEN Val(<<>>)
    ELSE MultiJoin(MultiValue(rule, values[i], execute_single_action(rule, values[i])),
                   MultiValues(rule, values, i + 1))

execute_multi_value_action(rule, values) ==
    IF rule.action.kind = "replaceall" THEN Val(rule.action.replacement)
    ELSE MultiValues(rule, values, 1)

\* The body of `for field in rule.tags` for one field: the tags after it,
\* whether the field has changed, and the error that it raises.
Step(err, atags, changed) == [err |-> err, tags |-> atags, changed |-> changed]

FieldTitle(r, atags, orig) ==
    IF r.err # "" THEN Step(r.err, atags, FALSE)
    ELSE Step("", [atags EXCEPT !.title = r.val], r.val # orig.title)

\* tags.year = int(v) if v else None, ValueError being raised again as
\* InvalidReplacementValueError
FieldYear(r, atags, orig) ==
    IF r.err # "" THEN Step(r.err, atags, FALSE)
    ELSE IF ~Truthy(r.val) THEN Step("", [atags EXCEPT !.year = None], None # orig.year)
    ELSE IF IntOfYear(r.val) < 0 THEN Step("InvalidReplacementValueError", atags, FALSE)
    ELSE Step("", [atags EXCEPT !.year = Some(IntOfYear(r.val))],
              Some(IntOfYear(r.val)) # orig.year)

\* execute_single_action(tags.release_type) or "unknown"
FieldReleaseType(r, atags, orig) ==
    IF r.err # "" THEN Step(r.err, atags, FALSE)
    ELSE IF Truthy(r.val)
    THEN Step("", [atags EXCEPT !.release_type = r.val], r.val # orig.release_type)
    ELSE Step("", [atags EXCEPT !.release_type = <<"unknown">>],
              <<"unknown">> # orig.release_type)

FieldGenre(r, atags, orig) ==
    IF r.err # "" THEN Step(r.err, atags, FALSE)
    ELSE Step("", [atags EXCEPT !.genre = r.val], r.val # orig.genre)

FieldLabel(r, atags, orig) ==
    IF r.err # "" THEN Step(r.err, atags, FALSE)
    ELSE Step("", [atags EXCEPT !.label = r.val], r.val # orig.label)

ApplyField(rule, field, atags, orig) ==
    IF field = "tracktitle"
    THEN FieldTitle(execute_single_action(rule, atags.title), atags, orig)
    ELSE IF field = "year"
    THEN FieldYear(execute_single_action(
                       rule, IF atags.year.none THEN NONE ELSE StrOfYear(atags.year.val)),
                   atags, orig)
    ELSE IF field = "releasetype"
    THEN FieldReleaseType(execute_single_action(rule, atags.release_type), atags, orig)
    ELSE IF field = "genre"
    THEN FieldGenre(execute_multi_value_action(rule, atags.genre), atags, orig)
    ELSE IF field = "label"
    THEN FieldLabel(execute_multi_value_action(rule, atags.label), atags, orig)
    ELSE Step("", atags, FALSE)

AllFields == <<"tracktitle", "year", "releasetype", "genre", "label">>

\* The loop over the fields, for all the fields there are.
RECURSIVE ApplyRule_every_field(_, _, _, _, _)
RECURSIVE ApplyRest_every_field(_, _, _, _, _)
ApplyRule_every_field(rule, i, atags, orig, changed) ==
    IF i > Len(AllFields) THEN Step("", atags, changed)
    ELSE ApplyRest_every_field(rule, i, ApplyField(rule, AllFields[i], atags, orig),
                               orig, changed)

ApplyRest_every_field(rule, i, s, orig, changed) ==
    IF s.err # "" THEN s
    ELSE ApplyRule_every_field(rule, i + 1, s.tags, orig, changed \/ s.changed)

\* The loop over rule.tags, from its i-th field on; s is what the body of
\* the loop has made of the i-th.
RECURSIVE ApplyRule(_, _, _, _, _)
RECURSIVE ApplyRest(_, _, _, _, _)
ApplyRule(rule, i, atags, orig, changed) ==
    IF i > Len(rule.tags) THEN Step("", atags, changed)
    ELSE ApplyRest(rule, i, ApplyField(rule, rule.tags[i], atags, orig), orig, changed)

ApplyRest(rule, i, s, orig, changed) ==
    IF s.err # "" THEN s
    ELSE ApplyRule(rule, i + 1, s.tags, orig, changed \/ s.changed)

\* The first pass: the tags of every track of track_paths are read and the
\* rule is applied to them; the tags that have changed are kept in audiotags.
RECURSIVE FirstPass(_, _, _, _, _)
RECURSIVE FirstPassRest(_, _, _, _, _, _)
FirstPass(disk, rule, paths, i, audiotags) ==
    IF i > Len(paths) THEN [err |-> "", audiotags |-> audiotags]
    ELSE FirstPassRest(disk, rule, paths, i, audiotags,
                       ApplyRule(rule, 1, disk[paths[i]], disk[paths[i]], FALSE))

FirstPassRest(disk, rule, paths, i, audiotags, s) ==
    IF s.err # "" THEN [err |-> s.err, audiotags |-> audiotags]
    ELSE FirstPass(disk, rule, paths, i + 1,
                   IF s.changed THEN Append(audiotags, [path |-> paths[i], tags |-> s.tags])
                   ELSE audiotags)

\* str(len(audiotags))
StrOfCount(n) ==
    CASE n = 0 -> "0" [] n = 1 -> "1" [] n = 2 -> "2" [] n = 3 -> "3" [] OTHER -> "?"

\* click.prompt until the answer is "no" or the number; click.Abort when the
\* input ends first.
RECURSIVE PromptNumber(_, _, _)
PromptNumber(answers, i, n) ==
    IF i > Len(answers) THEN "Abort"
    ELSE IF answers[i] = "no" THEN "no"
    ELSE IF answers[i] = StrOfCount(n) THEN "yes"
    ELSE PromptNumber(answers, i + 1, n)

\* click.confirm(default=True): y and yes confirm, n and no decline, the
\* empty answer is the default, on any other answer it asks again.
RECURSIVE ClickConfirm(_, _, _)
ClickConfirm(answers, i, default) ==
    IF i > Len(answers) THEN "Abort"
    ELSE IF answers[i] \in {"y", "yes"} THEN "yes"
    ELSE IF answers[i] \in {"n", "no"} THEN "no"
    ELSE IF answers[i] = "" THEN (IF default THEN "yes" ELSE "no")
    ELSE ClickConfirm(answers, i + 1, default)

\* A confirmation that takes every answer for a yes.
Confirmation_always(confirm_yes, n, enter_number_to_confirm_above_count, answers) == "yes"

\* The confirmation step: "yes" to go on to the flush, "no" to return,
\* "Abort" for the exception of click.
Confirmation(confirm_yes, n, enter_number_to_confirm_above_count, answers) ==
    IF ~confirm_yes THEN "yes"
    ELSE IF n > enter_number_to_confirm_above_count THEN PromptNumber(answers, 1, n)
    ELSE ClickConfirm(answers, 1, TRUE)

\* tags.flush() for every element of audiotags.
RECURSIVE Flush(_, _, _)
Flush(disk, audiotags, i) ==
    IF i > Len(audiotags) THEN disk
    ELSE Flush([disk EXCEPT ![audiotags[i].path] = audiotags[i].tags], audiotags, i + 1)

Ran(disk, err, audiotags, flushed) ==
    [disk |-> disk, err |-> err,
     changed |-> [i \in 1..Len(audiotags) |-> audiotags[i].path],
     flushed |-> flushed]

\* The end of the run: the flush, when the user has said yes.
SecondPass(disk, audiotags, sure) ==
    IF sure # "yes" THEN Ran(disk, IF sure = "Abort" THEN "Abort" ELSE "", audiotags, <<>>)
    ELSE Ran(Flush(disk, audiotags, 1), "", audiotags,
             [i \in 1..Len(audiotags) |-> audiotags[i].path])

\* The run after its first pass, with the tags of a track flushed as soon
\* as they have been computed.
AfterFirstPass_flushes_early(disk, pass, confirm_yes, threshold, answers) ==
    IF pass.err # ""
    THEN Ran(Flush(disk, pass.audiotags, 1), pass.err, pass.audiotags,
             [i \in 1..Len(pass.audiotags) |-> pass.audiotags[i].path])
    ELSE SecondPass(disk, pass.audiotags,
                    Confirmation(confirm_yes, Len(pass.audiotags), threshold, answers))

\* The run after its first pass: an error of the first pass is raised, and
\* otherwise the user is asked and the tags are flushed.
AfterFirstPass(disk, pass, confirm_yes, threshold, answers) ==
    IF pass.err # "" THEN Ran(disk, pass.err, <<>>, <<>>)
    ELSE SecondPass(disk, pass.audiotags,
                    Confirmation(confirm_yes, Len(pass.audiotags), threshold, answers))

execute_metadata_rule(disk, rule, confirm_yes, threshold, answers) ==
    IF TrackPaths(rule) = <<>> THEN Ran(disk, "", <<>>, <<>>)
    ELSE AfterFirstPass(disk, FirstPass(disk, rule, TrackPaths(rule), 1, <<>>),
                        confirm_yes, threshold, answers)

\* The rules, the thresholds and the answers of the user that are tried.
Matchers ==
    { <<"^", "k", "pop", "$">>, <<"pop">>, <<"^", "19">>, <<>>, <<"^", "K-">>,
      <<"k", "_", "pop">> }

RuleTags ==
    { <<"genre">>, <<"tracktitle">>, <<"year">>, <<"releasetype">>,
      <<"tracktitle", "genre">>, <<"label">>, <<"genre", "label">> }

Actions ==
    { [kind |-> "replace", replacement |-> KPop],
      [kind |-> "replace", replacement |-> <<"20", "00">>],
      [kind |-> "replace", replacement |-> <<>>],
      [kind |-> "replaceall", replacement |-> <<KPop>>],
      [kind |-> "sed", src |-> "k", dst |-> <<"K-">>],
      [kind |-> "split", delimiter |-> ";"],
      [kind |-> "delete"] }

Rules == [matcher : Matchers, tags : RuleTags, action : Actions]

DEFAULT_THRESHOLD == 25
Thresholds == {1, DEFAULT_THRESHOLD}

Answers == { <<"y">>, <<"n">>, <<"">>, <<"no">>, <<"2">>, <<"1", "3">> }

\* The arguments of a run: without confirm_yes nothing is asked.
RunArgs ==
    { [confirm_yes |-> FALSE, threshold |-> DEFAULT_THRESHOLD, answers |-> <<>>] }
        \cup [confirm_yes : {TRUE}, threshold : Thresholds, answers : Answers]

NoRun == [ran |-> FALSE]

InitRules ==
    /\ rtags = InitTags
    /\ rcache = RuleCache
    /\ rrule = [matcher |-> <<"^", "k", "pop", "$">>, tags |-> <<"genre">>,
               action |-> [kind |-> "replace", replacement |-> KPop]]
    /\ rrun = NoRun
    /\ nruns = 0

InitRulesAny ==
    /\ rtags \in {InitTags, OtherTags}
    /\ rcache = CacheOf(rtags)
    /\ rrule \in Rules
    /\ rrun = NoRun
    /\ nruns = 0

\* execute_metadata_rule(c, rule, confirm_yes, enter_number_to_confirm_above_count)
ExecuteMetadataRule(confirm_yes, threshold, answers) ==
    /\ nruns < MaxRuns
    /\ \E r \in {execute_metadata_rule(rtags, rrule, confirm_yes, threshold, answers)} :
       /\ rtags' = r.disk
       /\ rrun' = [ran |-> TRUE, confirm_yes |-> confirm_yes, threshold |-> threshold,
                   answers |-> answers, err |-> r.err, changed |-> r.changed,
                   flushed |-> r.flushed, before |-> rtags]
    /\ nruns' = nruns + 1
    /\ UNCHANGED <<rrule, rcache, libVars, vfsVars, mutVars, idxVars, tomlVars, inoVars>>

NextRules ==
    \E a \in RunArgs : ExecuteMetadataRule(a.confirm_yes, a.threshold, a.answers)



\* The library and its cache after a full index; the cover art of r2 is
\* the file named cover.
InitLibrary(cover) ==
    /\ srcDirs = RIds
    /\ sidecarNew = [r \in RIds |-> r = <<"r1">>]
    /\ srcCover = [r \in RIds |-> IF r = <<"r2">> THEN cover ELSE NONE]
    /\ cache = [r \in RIds |->
                  [present |-> TRUE, new |-> r = <<"r1">>,
                   cover |-> IF r = <<"r2">> THEN cover ELSE NONE, album |-> "v0"]]
    /\ tags = [t \in TIds |-> "v0"]
    /\ collages = [c \in CNames |->
                     IF c = nC THEN [NoCollage EXCEPT !.exists = TRUE,
                                                      !.releases = << <<"r1">> >>]
                     ELSE NoCollage]
    /\ playlists = [q \in PNames |->
                      IF q = nP THEN [NoPlaylist EXCEPT !.exists = TRUE,
                                                       !.tracks = << <<"t1">> >>]
                      ELSE NoPlaylist]

\* ------------------------------------------- ghost paths and attribute caches
\* FileHandleManager.dev_null: the handle that swallows what is written to it.
DevNull == 9

\* The time to live of VirtualFS.ghost_existing_files, of
\* VirtualFS.ghost_writable_empty_directory, and of getattr_cache and
\* lookup_cache.
GHOST_FILE_TTL == 2
GHOST_DIR_TTL == 5
GETATTR_TTL == 1

\* llfuse.ROOT_INODE, the inode of "/".
ROOT_INODE == 1

\* A TTLCache maps a key to its value and to the time it was set at; the
\* item is there while less than ttl seconds have gone by since.
Live(c, key, ttl) == key \in DOMAIN c /\ vnow - c[key].at < ttl

CachePut(c, key, val) ==
    [k \in DOMAIN c \cup {key} |-> IF k = key THEN [val |-> val, at |-> vnow] ELSE c[k]]

Expire(c, ttl, t) == [k \in {x \in DOMAIN c : t - c[x].at < ttl} |-> c[k]]

\* Path.parent
Parent(path) == IF path = <<>> THEN <<>> ELSE SubSeq(path, 1, Len(path) - 1)

\* What getattr and lookup answer: the kind of the file, or the error.
Stat(op, path, g, cached) ==
    [op |-> op, path |-> path, kind |-> IF g \in {"dir", "file"} THEN g ELSE "",
     err |-> IF g \in {"dir", "file"} THEN "" ELSE g, cached |-> cached]

NoStat == [op |-> "none", path |-> <<>>, kind |-> "", err |-> "", cached |-> FALSE]

\* What the callers of the filesystem have made: the time a directory was
\* made at, and for each handle of a file-creation special op its path and
\* the time the op ran at on release (-1 before).
NoneMade == [mkdirs |-> <<>>, files |-> <<>>]

InitVfs ==
    /\ fhState = 10
    /\ roseToHost = [h \in Handles |-> NoHost]
    /\ specialOps = [h \in Handles |-> NoSop]
    /\ updateOnClose = [h \in Handles |-> NONE]
    /\ readdirCache = <<>>
    /\ ret = Idle
    /\ nops = 0
    /\ ghostFiles = <<>>
    /\ ghostDirs = <<>>
    /\ getattrCache = <<>>
    /\ lookupCache = <<>>
    /\ vnow = 0
    /\ stat = NoStat
    /\ made = NoneMade
    /\ inodeToPath = [i \in {ROOT_INODE} |-> <<>>]
    /\ pathToInode = [p \in {<<>>} |-> ROOT_INODE]
    /\ nextInodeCtr = ROOT_INODE + 1

InitLib == InitLibrary(fCover)

InitSystem == InitLib /\ InitVfs /\ InitMutators /\ InitIndexer

\* A library whose release r2 has its cover art under any of the names of
\* valid_cover_arts.
InitAnyCover ==
    /\ \E cover \in ValidCoverArts : InitLibrary(cover)
    /\ InitVfs /\ InitMutators /\ InitIndexer /\ InitToml /\ InitRules

Init == InitSystem /\ InitToml /\ InitRules

\* A syscall is taken up when the last one has been answered.
Ready == ret = Idle /\ nops < MaxOps

HandleReady == ret = Idle /\ nops < MaxHandleOps

\* VirtualFS.reset_getattr_caches
reset_getattr_caches == getattrCache' = <<>> /\ lookupCache' = <<>>

\* unlink, mkdir, rmdir, rename and create reset the caches once the core has
\* not raised.
Reset(err) ==
    IF err = "" THEN reset_getattr_caches ELSE UNCHANGED <<getattrCache, lookupCache>>

Answer(op, args, o) ==
    /\ SetLib(o.lib)
    /\ ret' = [op |-> op, args |-> args, err |-> o.err, calls |-> o.calls, fh |-> 0]
    /\ nops' = nops + 1
    /\ Reset(o.err)
    /\ UNCHANGED <<ghostFiles, vnow, stat, mutVars, idxVars, extVars>>

\* VirtualPath.parse raises ENOENT on a path it does not know.
Parsed(path, o) == IF Parse(path, TRUE).view = "ENOENT" THEN Outcome(Lib, "ENOENT", <<>>) ELSE o

Unlink(path) ==
    /\ Answer("unlink", <<path>>, Parsed(path, unlink(Lib, Parse(path, TRUE))))
    /\ UNCHANGED <<fhVars, ghostDirs, made>>

\* The directory that mkdir flags as a ghost writable empty directory.
GhostDir_never(path, err) == FALSE

GhostDir(path, err) == err = "" /\ Truthy(Parse(path, FALSE).collage)

Mkdir(path) ==
    /\ \E o \in {IF Parse(path, FALSE).view = "ENOENT" THEN Outcome(Lib, "ENOENT", <<>>)
                 ELSE mkdir(Lib, Parse(path, FALSE))} :
          /\ Answer("mkdir", <<path>>, o)
          /\ ghostDirs' = IF GhostDir(path, o.err) THEN CachePut(ghostDirs, path, TRUE)
                          ELSE ghostDirs
          /\ made' = IF o.err = "" /\ o.calls # <<>> /\ o.calls[1][1] = "add_release_to_collage"
                     THEN [made EXCEPT !.mkdirs = CachePut(@, path, TRUE)] ELSE made
    /\ UNCHANGED fhVars

Rmdir(path) ==
    /\ Answer("rmdir", <<path>>, Parsed(path, rmdir(Lib, Parse(path, TRUE))))
    /\ UNCHANGED <<fhVars, ghostDirs, made>>

Rename(old, new) ==
    /\ Answer("rename", <<old, new>>,
              Parsed(old, Parsed(new, rename(Lib, Parse(old, TRUE), Parse(new, TRUE)))))
    /\ UNCHANGED <<fhVars, ghostDirs, made>>

\* VirtualFS.open, which create calls too: inside a ghost directory the file
\* is flagged as a ghost file and the write sink is handed out; elsewhere
\* the core opens the file, and a file opened with O_CREAT is flagged.
OpenCall(op, path, flags) ==
    /\ IF Live(ghostDirs, Parent(path), GHOST_DIR_TTL)
       THEN /\ ghostFiles' = CachePut(ghostFiles, path, TRUE)
            /\ ret' = [op |-> op, args |-> <<path, flags>>, err |-> "",
                       calls |-> <<>>, fh |-> DevNull]
            /\ UNCHANGED <<fhState, roseToHost, specialOps, updateOnClose, made>>
       ELSE \E r \in {IF Parse(path, TRUE).view = "ENOENT" THEN OpenFails("ENOENT")
                      ELSE open(Lib, Parse(path, TRUE), flags)}, fh \in {next(fhState)} :
            /\ ret' = [op |-> op, args |-> <<path, flags>>, err |-> r.err,
                       calls |-> <<>>, fh |-> IF r.err = "" THEN fh ELSE 0]
            /\ IF r.err = ""
               THEN /\ fhState' = fh
                    /\ roseToHost' = [roseToHost EXCEPT ![fh] = r.host]
                    /\ specialOps' = [specialOps EXCEPT ![fh] = r.sop]
                    /\ updateOnClose' = [updateOnClose EXCEPT ![fh] = r.upd]
                    /\ made' = IF r.sop # NoSop
                               THEN [made EXCEPT !.files =
                                        [h \in DOMAIN @ \cup {fh} |->
                                            IF h = fh THEN [path |-> path, at |-> 0 - 1]
                                            ELSE @[h]]]
                               ELSE made
               ELSE UNCHANGED <<fhState, roseToHost, specialOps, updateOnClose, made>>
            /\ ghostFiles' = IF r.err = "" /\ flags.creat
                             THEN CachePut(ghostFiles, path, TRUE) ELSE ghostFiles
    /\ nops' = nops + 1
    /\ UNCHANGED <<libVars, readdirCache, ghostDirs, vnow, stat, mutVars, idxVars, extVars>>

Open(path, flags) ==
    /\ OpenCall("open", path, flags)
    /\ UNCHANGED <<getattrCache, lookupCache>>

\* VirtualFS.create: open, and the caches are reset when it has not raised.
Create(path, flags) ==
    /\ OpenCall("create", path, flags)
    /\ Reset(ret'.err)

\* VirtualFS.read: nothing comes out of the write sink; a special op hands
\* out its buffer, any other handle what the host file holds.
Read(fh) ==
    /\ ret' = [op |-> "read", args |-> <<fh>>,
               err |-> IF fh = DevNull THEN ""
                       ELSE IF specialOps[fh] # NoSop THEN ""
                       ELSE IF \/ roseToHost[fh] = NoHost
                               \/ roseToHost[fh].closed
                               \/ roseToHost[fh].acc = "O_WRONLY"
                       THEN "EBADF" ELSE "",
               calls |-> <<>>, fh |-> fh]
    /\ nops' = nops + 1
    /\ UNCHANGED <<libVars, fhVars, ghostVars, mutVars, idxVars, extVars>>

Write(fh, offset, data) ==
    /\ IF fh = DevNull
       THEN /\ ret' = [op |-> "write", args |-> <<fh, offset, data>>, err |-> "",
                       calls |-> <<>>, fh |-> fh]
            /\ UNCHANGED <<libVars, specialOps>>
       ELSE IF specialOps[fh] # NoSop
       THEN /\ specialOps' = [specialOps EXCEPT ![fh].b = WriteBuffer(@, offset, data)]
            /\ ret' = [op |-> "write", args |-> <<fh, offset, data>>, err |-> "",
                       calls |-> <<>>, fh |-> fh]
            /\ UNCHANGED libVars
       ELSE LET err == IF \/ roseToHost[fh] = NoHost
                          \/ roseToHost[fh].closed
                          \/ roseToHost[fh].acc = "O_RDONLY"
                       THEN "EBADF" ELSE ""
                t == roseToHost[fh].target
            IN
            /\ UNCHANGED specialOps
            /\ ret' = [op |-> "write", args |-> <<fh, offset, data>>, err |-> err,
                       calls |-> <<>>, fh |-> fh]
            /\ tags' = IF err = "" /\ t \in TIds
                       THEN [tags EXCEPT ![t] = TagAlbum(@, data)] ELSE tags
            /\ UNCHANGED <<srcDirs, sidecarNew, srcCover, cache, collages, playlists>>
    /\ nops' = nops + 1
    /\ UNCHANGED <<fhState, roseToHost, updateOnClose, readdirCache, ghostVars,
                   mutVars, idxVars, extVars>>

\* VirtualFS.release: the write sink is left alone; the core runs the special
\* op of the handle, or closes the host file.  getattr_cache and lookup_cache
\* are what they were.
Release(fh) ==
    /\ IF fh = DevNull
       THEN /\ ret' = [op |-> "release", args |-> <<fh>>, err |-> "", calls |-> <<>>,
                       fh |-> fh]
            /\ UNCHANGED <<libVars, specialOps, roseToHost, made>>
       ELSE IF specialOps[fh] # NoSop
       THEN \E r \in {release_special_op(Lib, specialOps[fh])} :
            /\ SetLib(r.lib)
            /\ specialOps' = IF r.done THEN [specialOps EXCEPT ![fh] = NoSop] ELSE specialOps
            /\ ret' = [op |-> "release", args |-> <<fh>>, err |-> r.err,
                       calls |-> r.calls, fh |-> fh]
            /\ made' = IF r.done /\ fh \in DOMAIN made.files
                       THEN [made EXCEPT !.files[fh].at = vnow] ELSE made
            /\ UNCHANGED roseToHost
       ELSE \E o \in {release_host(Lib, updateOnClose[fh], roseToHost[fh])} :
            /\ SetLib(o.lib)
            /\ roseToHost' = IF o.err = "" THEN [roseToHost EXCEPT ![fh].closed = TRUE]
                             ELSE roseToHost
            /\ ret' = [op |-> "release", args |-> <<fh>>, err |-> o.err,
                       calls |-> <<>>, fh |-> fh]
            /\ UNCHANGED <<specialOps, made>>
    /\ nops' = nops + 1
    /\ UNCHANGED <<fhState, updateOnClose, readdirCache, ghostFiles, ghostDirs,
                   getattrCache, lookupCache, vnow, stat, mutVars, idxVars, extVars>>

\* The stat that readdir hands out with a name: tracks, and cover art, are
\* files; everything else is a directory.
EntryKind(p, name) ==
    IF name \in {Dots[1], Dots[2]} THEN "dir"
    ELSE IF Truthy(p.release) \/ Truthy(p.playlist) THEN "file"
    ELSE "dir"

\* An entry of a listing: the inode of spath / name (a Path drops the dot),
\* the parent and the name, and the attributes.
Entry(path, p, name) ==
    [ino |-> IF name = Dots[1] THEN path ELSE path \o <<name>>,
     key |-> path \o <<name>>, name |-> name, kind |-> EntryKind(p, name)]

\* The entries that opendir keeps: the two of a ghost directory, or what the
\* core lists.
Entries(path, names) ==
    [i \in 1..Len(names) |-> Entry(path, Parse(path, TRUE), names[i])]

\* VirtualFS.opendir: the listing is read once and kept under a new handle.
Opendir(path) ==
    /\ \E r \in {IF Live(ghostDirs, path, GHOST_DIR_TTL) THEN Listing("", Dots)
                 ELSE IF Parse(path, TRUE).view = "ENOENT" THEN Listing("ENOENT", <<>>)
                 ELSE readdir(Lib, Parse(path, TRUE))}, fh \in {next(fhState)} :
          /\ ret' = [op |-> "opendir", args |-> <<path>>, err |-> r.err,
                     calls |-> <<>>, fh |-> IF r.err = "" THEN fh ELSE 0]
          /\ IF r.err = ""
             THEN /\ fhState' = fh
                  /\ readdirCache' = [h \in DOMAIN readdirCache \cup {fh} |->
                                         IF h = fh THEN Entries(path, r.names)
                                         ELSE readdirCache[h]]
             ELSE UNCHANGED <<fhState, readdirCache>>
    /\ nops' = nops + 1
    /\ UNCHANGED <<libVars, roseToHost, specialOps, updateOnClose, ghostVars,
                   mutVars, idxVars, extVars>>

\* VirtualFS.releasedir: the listing of the handle, when there is one, is
\* deleted.
Releasedir(fh) ==
    /\ readdirCache' = [h \in DOMAIN readdirCache \ {fh} |-> readdirCache[h]]
    /\ ret' = [op |-> "releasedir", args |-> <<fh>>, err |-> "", calls |-> <<>>, fh |-> fh]
    /\ nops' = nops + 1
    /\ UNCHANGED <<libVars, fhState, roseToHost, specialOps, updateOnClose, ghostVars,
                   mutVars, idxVars, extVars>>

\* The cache with the entries of a listing put into it, under the key that
\* key(entry) gives.
RECURSIVE Fill(_, _, _, _)
Fill(c, entries, i, ino) ==
    IF i > Len(entries) THEN c
    ELSE Fill(CachePut(c, IF ino THEN entries[i].ino ELSE entries[i].key, entries[i].kind),
              entries, i + 1, ino)

\* VirtualFS.readdir from offset 0: every entry of the listing goes into
\* getattr_cache and into lookup_cache.
Readdir(fh) ==
    /\ fh \in DOMAIN readdirCache
    /\ getattrCache' = Fill(getattrCache, readdirCache[fh], 1, TRUE)
    /\ lookupCache' = Fill(lookupCache, readdirCache[fh], 1, FALSE)
    /\ ret' = [op |-> "readdir", args |-> <<fh>>, err |-> "", calls |-> <<>>, fh |-> fh]
    /\ nops' = nops + 1
    /\ UNCHANGED <<libVars, fhVars, ghostFiles, ghostDirs, vnow, stat, made,
                   mutVars, idxVars, extVars>>

\* RoseLogicalCore.getattr behind VirtualPath.parse
CoreGetattr(path) ==
    IF Parse(path, TRUE).view = "ENOENT" THEN "ENOENT" ELSE getattr(Lib, Parse(path, TRUE))

\* getattr that knows of no ghost file.
GetattrAnswer_no_ghost(path) ==
    IF Live(getattrCache, path, GETATTR_TTL)
    THEN Stat("getattr", path, getattrCache[path].val, TRUE)
    ELSE Stat("getattr", path, CoreGetattr(path), FALSE)

\* VirtualFS.getattr: the cached attributes, else those of a ghost file, else
\* what the core says.
GetattrAnswer(path) ==
    IF Live(getattrCache, path, GETATTR_TTL)
    THEN Stat("getattr", path, getattrCache[path].val, TRUE)
    ELSE IF Live(ghostFiles, path, GHOST_FILE_TTL) THEN Stat("getattr", path, "file", FALSE)
    ELSE Stat("getattr", path, CoreGetattr(path), FALSE)

\* VirtualFS.lookup: as getattr, but for ENOENT inside a ghost directory.
LookupAnswer(path) ==
    IF Live(lookupCache, path, GETATTR_TTL)
    THEN Stat("lookup", path, lookupCache[path].val, TRUE)
    ELSE IF Live(ghostFiles, path, GHOST_FILE_TTL) THEN Stat("lookup", path, "file", FALSE)
    ELSE IF Live(ghostDirs, Parent(path), GHOST_DIR_TTL)
    THEN Stat("lookup", path, "ENOENT", FALSE)
    ELSE Stat("lookup", path, CoreGetattr(path), FALSE)

Getattr(path) ==
    /\ stat' = GetattrAnswer(path)
    /\ ret' = [op |-> "getattr", args |-> <<path>>, err |-> stat'.err, calls |-> <<>>,
               fh |-> 0]
    /\ nops' = nops + 1
    /\ UNCHANGED <<libVars, fhVars, ghostFiles, ghostDirs, getattrCache, lookupCache,
                   vnow, made, mutVars, idxVars, extVars>>

Lookup(path) ==
    /\ stat' = LookupAnswer(path)
    /\ ret' = [op |-> "lookup", args |-> <<path>>, err |-> stat'.err, calls |-> <<>>,
               fh |-> 0]
    /\ nops' = nops + 1
    /\ UNCHANGED <<libVars, fhVars, ghostFiles, ghostDirs, getattrCache, lookupCache,
                   vnow, made, mutVars, idxVars, extVars>>

\* A second goes by between two syscalls; the items whose time to live is
\* over are gone from the caches.
GhostTick ==
    /\ ret = Idle
    /\ vnow' = vnow + 1
    /\ ghostFiles' = Expire(ghostFiles, GHOST_FILE_TTL, vnow + 1)
    /\ ghostDirs' = Expire(ghostDirs, GHOST_DIR_TTL, vnow + 1)
    /\ getattrCache' = Expire(getattrCache, GETATTR_TTL, vnow + 1)
    /\ lookupCache' = Expire(lookupCache, GETATTR_TTL, vnow + 1)
    /\ UNCHANGED <<libVars, fhVars, ret, nops, stat, made, mutVars, idxVars, extVars>>

\* The answer goes back to the kernel.
Return ==
    /\ ret # Idle
    /\ ret' = Idle
    /\ stat' = NoStat
    /\ UNCHANGED <<libVars, fhVars, nops, ghostFiles, ghostDirs, getattrCache, lookupCache,
                   vnow, made, mutVars, idxVars, extVars>>

\* ------------------------------------------------------- INodeManager
\* d[k] = v and del d[k] on a dict.
DictSet(d, k, v) == [x \in DOMAIN d \cup {k} |-> IF x = k THEN v ELSE d[x]]
DictDel(d, k) == [x \in DOMAIN d \ {k} |-> d[x]]

\* INodeManager.calc_inode: the inode of a path that has one, a new one for
\* a path that has none.
calc_inode(path) ==
    /\ IF path \in DOMAIN pathToInode
       THEN UNCHANGED inoVars
       ELSE /\ nextInodeCtr <= MaxInode
            /\ nextInodeCtr' = nextInodeCtr + 1
            /\ pathToInode' = DictSet(pathToInode, path, nextInodeCtr)
            /\ inodeToPath' = DictSet(inodeToPath, nextInodeCtr, path)
    /\ UNCHANGED <<libVars, vfsVars, mutVars, idxVars, tomlVars, ruleVars>>

\* INodeManager.remove_path
remove_path(path) ==
    /\ IF path \notin DOMAIN pathToInode
       THEN UNCHANGED <<pathToInode, inodeToPath>>
       ELSE /\ pathToInode' = DictDel(pathToInode, path)
            /\ inodeToPath' = DictDel(inodeToPath, pathToInode[path])
    /\ UNCHANGED <<nextInodeCtr, libVars, vfsVars, mutVars, idxVars, tomlVars, ruleVars>>

\* INodeManager.rename_path: the inode of the old path is given the new
\* path, the new path is given the inode, and the entry of the old path is
\* deleted.
rename_path(old_path, new_path) ==
    /\ IF old_path \notin DOMAIN pathToInode
       THEN UNCHANGED <<pathToInode, inodeToPath>>
       ELSE /\ inodeToPath' = DictSet(inodeToPath, pathToInode[old_path], new_path)
            /\ pathToInode' = DictDel(DictSet(pathToInode, new_path, pathToInode[old_path]),
                                      old_path)
    /\ UNCHANGED <<nextInodeCtr, libVars, vfsVars, mutVars, idxVars, tomlVars, ruleVars>>

\* The namespace syscalls.
Next ==
    \/ \E path \in UnlinkPaths : Ready /\ Unlink(path)
    \/ \E path \in MkdirPaths : Ready /\ Mkdir(path)
    \/ \E path \in RmdirPaths : Ready /\ Rmdir(path)
    \/ \E old \in RenamePaths, new \in RenamePaths : Ready /\ Rename(old, new)
    \/ Return

\* The syscalls on file handles, with the playlists coming and going.
NextHandles ==
    \/ \E path \in OpenPaths, flags \in Flags :
          HandleReady /\ fhState < 10 + MaxFh /\ Open(path, flags)
    \/ \E fh \in Handles, offset \in 0..MaxOffset, data \in Chunks :
          HandleReady /\ Write(fh, offset, data)
    \/ \E fh \in Handles : HandleReady /\ Release(fh)
    \/ \E path \in OpendirPaths : HandleReady /\ fhState < 10 + MaxFh /\ Opendir(path)
    \/ \E fh \in Handles : HandleReady /\ Releasedir(fh)
    \/ \E path \in HandlePaths : Ready /\ Unlink(path)
    \/ Return

\* Directories are listed one after the other, for as long as the mount
\* lasts.
DirsReady == fhState < MaxState /\ Cardinality(DOMAIN readdirCache) < MaxDirs

\* The directories listed there: ones that exist in the library.
DirPaths == { <<>>, <<V_RELEASES>>, <<V_COLLAGES, nC>> }

NextDirs ==
    \/ \E path \in DirPaths : DirsReady /\ Opendir(path)
    \/ \E fh \in DOMAIN readdirCache : Releasedir(fh)

\* A release is copied into a collage: the directory is made, listed, and
\* files are made in it, written, read and closed, while the clock runs.
GhostReady == ret = Idle /\ nops < MaxGhostOps

GhostMkdirPaths == { <<V_COLLAGES, nC, nNewA>>, <<V_COLLAGES, nD>> }

GhostFilePaths ==
    { <<V_COLLAGES, nC, nNewA, fX>>, <<V_COLLAGES, nC, nNewA, fCover>>,
      <<V_PLAYLISTS, nP, fY>> }

GhostListPaths == { <<V_COLLAGES, nC, nNewA>>, <<V_COLLAGES, nC>> }

GhostFlags == { f \in Flags : f.acc = "O_RDWR" }

\* The handles that the kernel has been given, and the write sink.
Given == {DevNull} \cup { h \in Handles : h <= fhState }

NextGhost ==
    \/ \E path \in GhostMkdirPaths : GhostReady /\ Mkdir(path)
    \/ \E path \in GhostFilePaths, flags \in GhostFlags :
          GhostReady /\ fhState < 10 + MaxFh /\ Open(path, flags)
    \/ \E path \in GhostFilePaths, flags \in GhostFlags :
          GhostReady /\ fhState < 10 + MaxFh /\ Create(path, flags)
    \/ \E fh \in Given : GhostReady /\ Read(fh)
    \/ \E fh \in Given, data \in {<<HDR, "t2">>} : GhostReady /\ Write(fh, 0, data)
    \/ \E fh \in Given : GhostReady /\ Release(fh)
    \/ \E path \in GhostListPaths : GhostReady /\ fhState < 10 + MaxFh /\ Opendir(path)
    \/ \E path \in GhostFilePaths : GhostReady /\ Lookup(path)
    \/ vnow < MaxClock /\ GhostTick
    \/ Return

\* A playlist gets a track and a cover while its directory is listed and the
\* kernel asks for the attributes of what is in it.
CacheReady == ret = Idle /\ nops < MaxCacheOps

CacheFilePaths == { <<V_PLAYLISTS, nP, fY>>, <<V_PLAYLISTS, nP, fCover>> }

CacheListPaths == { <<V_PLAYLISTS, nP>> }

\* The release directories of collages that the kernel looks up.
CollageReleasePaths == { <<V_COLLAGES, nD, nNewA>>, <<V_COLLAGES, nC, nB>> }

CacheStatPaths ==
    CacheFilePaths \cup { <<V_PLAYLISTS, nP, Numbered("1", fX)>> } \cup CollageReleasePaths

NextCaches ==
    \/ \E path \in {<<V_PLAYLISTS, nP, Numbered("1", fX)>>} : CacheReady /\ Unlink(path)
    \/ \E path \in {<<V_COLLAGES, nD>>, <<V_COLLAGES, nD, nNewA>>} :
          CacheReady /\ Mkdir(path)
    \/ \E path \in {<<V_COLLAGES, nC>>} : CacheReady /\ Rmdir(path)
    \/ \E old \in {<<V_PLAYLISTS, nP>>}, new \in {<<V_PLAYLISTS, nQ>>} :
          CacheReady /\ Rename(old, new)
    \/ \E path \in CacheFilePaths, flags \in GhostFlags :
          CacheReady /\ fhState < 10 + MaxFh /\ Open(path, flags)
    \/ \E path \in CacheFilePaths, flags \in GhostFlags :
          CacheReady /\ fhState < 10 + MaxFh /\ Create(path, flags)
    \/ \E fh \in Given, data \in {<<HDR, "t2">>} : CacheReady /\ Write(fh, 0, data)
    \/ \E fh \in Given : CacheReady /\ Release(fh)
    \/ \E path \in CacheListPaths : CacheReady /\ fhState < 10 + MaxFh /\ Opendir(path)
    \/ \E fh \in DOMAIN readdirCache : CacheReady /\ Readdir(fh)
    \/ \E fh \in DOMAIN readdirCache : CacheReady /\ Releasedir(fh)
    \/ \E path \in CacheStatPaths : CacheReady /\ Getattr(path)
    \/ \E path \in CacheStatPaths : CacheReady /\ Lookup(path)
    \/ vnow < MaxCacheClock /\ GhostTick
    \/ Return

vars == <<libVars, vfsVars, mutVars, idxVars, extVars>>

Spec == Init /\ [][Next]_vars

SpecHandles == Init /\ [][NextHandles]_vars

SpecMutators == Init /\ [][NextMutators]_vars

\* The renames that the worker threads are given: a release directory to
\* its name without the {NEW} prefix.
RenamePairs ==
    { << <<V_RELEASES, NewPrefix \o x>>, <<V_RELEASES, x>> >> : x \in {nA, nB} }

NextRename ==
    \/ \E p \in Procs, r \in RenamePairs : RenameToggle(p, r[1], r[2])
    \/ \E p \in Procs : Acquire(p)
    \/ \E p \in Procs : Load(p)
    \/ \E p \in Procs : Store(p)
    \/ \E p \in Procs : Reindex(p)
    \/ \E p \in Procs : Finish(p)
    \/ Tick

SpecRename == Init /\ [][NextRename]_vars

\* The release directories are listed and what they list is asked for and
\* opened for reading.
ListDirs == { <<V_RELEASES, nNewA>>, <<V_RELEASES, nB>> }

ListFiles ==
    { <<V_RELEASES, nNewA, Numbered("01", fX)>>, <<V_RELEASES, nB, Numbered("01", fY)>> }
        \cup { <<V_RELEASES, nB, f>> : f \in ValidCoverArts }

RdOnly == [creat |-> FALSE, acc |-> "O_RDONLY"]

NextListing ==
    \/ \E path \in ListDirs : Ready /\ fhState < 10 + MaxFh /\ Opendir(path)
    \/ \E fh \in DOMAIN readdirCache : Ready /\ Readdir(fh)
    \/ \E fh \in DOMAIN readdirCache : Ready /\ Releasedir(fh)
    \/ \E path \in ListFiles : Ready /\ Getattr(path)
    \/ \E path \in ListFiles : Ready /\ fhState < 10 + MaxFh /\ Open(path, RdOnly)
    \/ \E fh \in Given : Ready /\ Release(fh)
    \/ Return

SpecListing == InitAnyCover /\ [][NextListing]_vars

\* Paths of every view that the kernel asks the attributes of, with and
\* without the prefixes that the listings print.
ParsePaths ==
    { <<>>, <<V_RELEASES>>, <<V_RELEASES, nB>>, <<V_RELEASES, nB, Numbered("01", fY)>>,
      <<V_RELEASES, nB, fY>>, <<V_NEW>>, <<V_NEW, nNewA>>,
      <<V_RECENT>>, <<V_RECENT, nB>>, <<V_RECENT, Dated(nB)>>,
      <<V_RECENT, <<"[2023-12-31]", SP>> \o nB>>,
      <<V_RECENT, Dated(nB), Numbered("01", fY)>>,
      <<V_ARTISTS, nZ>>, <<V_GENRES, nZ>>, <<V_LABELS, nZ>>, <<V_LABELS, nZ, nB>>,
      <<V_COLLAGES, nC>>, <<V_COLLAGES, nC, Numbered("1", nNewA)>>,
      <<V_COLLAGES, nC, nNewA>>, <<V_COLLAGES, nC, Numbered("2", nNewA)>>,
      <<V_PLAYLISTS, nP>>, <<V_PLAYLISTS, nP, Numbered("1", fX)>>, <<V_PLAYLISTS, nP, fX>>,
      <<nZ>> }

NextParse ==
    \/ \E path \in ParsePaths : Ready /\ Getattr(path)
    \/ \E path \in ParsePaths : Ready /\ Lookup(path)
    \/ Return

SpecParse == Init /\ [][NextParse]_vars

\* The paths that the inodes are asked of, removed and renamed.
InodePaths == { <<V_RELEASES>>, <<V_RELEASES, nNewA>>, <<V_RELEASES, nA>>, <<V_RELEASES, nB>> }

NextInodes ==
    \/ \E path \in InodePaths : calc_inode(path)
    \/ \E path \in InodePaths : remove_path(path)
    \/ \E old \in InodePaths, new \in InodePaths : rename_path(old, new)

SpecInodes == Init /\ [][NextInodes]_vars

SpecDirs == Init /\ [][NextDirs]_vars

SpecIndexer == Init /\ [][NextIndexer]_vars

SpecGhost == Init /\ [][NextGhost]_vars

SpecCaches == Init /\ [][NextCaches]_vars

\* serialize and from_toml on every MetadataRelease of MetadataReleases.
InitAnyRelease == InitSystem /\ InitTomlAny /\ InitRules

SpecToml == InitAnyRelease /\ [][NextToml]_vars

\* execute_metadata_rule, run and run again, on every rule of Rules.
InitAnyRule == InitSystem /\ InitToml /\ InitRulesAny

SpecRules == InitAnyRule /\ [][NextRules]_vars


\* ================================================================ claims
\* The library after the step.
LibNext == [srcDirs |-> srcDirs', sidecarNew |-> sidecarNew', srcCover |-> srcCover',
            tags |-> tags', cache |-> cache', collages |-> collages',
            playlists |-> playlists']

\* ---- C1
\* The step is an open with O_CREAT of <name>.<audio extension> in the
\* directory of an existing playlist.
C1_CreatesInPlaylist ==
    /\ ret'.op = "open"
    /\ ret'.args[2].creat
    /\ Len(ret'.args[1]) = 3
    /\ ret'.args[1][1] = V_PLAYLISTS
    /\ playlist_exists(Lib, ret'.args[1][2])
    /\ Lower(Suffix(ret'.args[1][3])) \in SUPPORTED_AUDIO_EXTENSIONS

\* The step is a write to, a release of, a handle of the playlist addition
\* sequence.
C1_OnAddition(op) ==
    /\ ret'.op = op
    /\ specialOps[ret'.fh].op = "add-track-to-playlist"

C1_Step ==
    /\ C1_CreatesInPlaylist =>
          /\ ret'.err = ""
          /\ specialOps'[ret'.fh] =
                [op |-> "add-track-to-playlist",
                 ident |-> [type |-> "playlist", id |-> ret'.args[1][2]],
                 ext |-> Suffix(ret'.args[1][3]), b |-> <<>>]
          /\ ret'.calls = <<>>
          /\ UNCHANGED libVars
    /\ C1_OnAddition("write") =>
          /\ ret'.calls = <<>>
          /\ UNCHANGED libVars
          /\ specialOps'[ret'.fh].b =
                SubSeq(specialOps[ret'.fh].b, 1, Min(ret'.args[2], Len(specialOps[ret'.fh].b)))
                    \o ret'.args[3]
    /\ (C1_OnAddition("release") /\ TagId(specialOps[ret'.fh].b) # NONE) =>
          LET P == specialOps[ret'.fh].ident.id
              T == TagId(specialOps[ret'.fh].b)
          IN /\ ret'.calls = << <<"add_track_to_playlist", P, T>> >>
             /\ LibNext = add_track_to_playlist(Lib, P, T).lib

\* C1: a handle that open with O_CREAT hands out for an audio file name in an
\* existing playlist's directory mutates nothing at open nor at any write,
\* which only buffer; at release, when the bytes buffered from offset 0 on
\* carry the track id T, add_track_to_playlist(P, T) is called exactly once,
\* and has taken effect when release returns.
C1_AddTrackOnRelease == [][C1_Step]_vars

\* A release has added t2, written through the handle, to playlist P.
C1_Witness ==
    /\ ret.op = "release"
    /\ ret.err = ""
    /\ ret.calls = << <<"add_track_to_playlist", nP, <<"t2">> >> >>
    /\ playlists[nP].tracks = << <<"t1">>, <<"t2">> >>
    /\ specialOps[ret.fh] = NoSop

\* ---- C2
\* The rename answered is of release r's directory, from oldname to newname.
C2_Renamed(r, oldname, newname) ==
    /\ ret.op = "rename"
    /\ ret.err = ""
    /\ Len(ret.args[1]) = 2 /\ Len(ret.args[2]) = 2
    /\ ret.args[1][1] \in {V_RELEASES, V_NEW}
    /\ ret.args[2][1] \in {V_RELEASES, V_NEW}
    /\ ret.args[1][2] = oldname
    /\ ret.args[2][2] = newname

ReleaseViews == {V_RELEASES, V_NEW, V_RECENT}
KeyedViews == {V_ARTISTS, V_GENRES, V_LABELS}

\* A release directory: <view>/<release>, <view>/<key>/<release>,
\* "7. Collages"/<collage>/<release>.
IsReleaseDir(path) ==
    \/ Len(path) = 2 /\ path[1] \in ReleaseViews
    \/ Len(path) = 3 /\ path[1] \in KeyedViews \cup {V_COLLAGES}

IsCollageDir(path) == Len(path) = 2 /\ path[1] = V_COLLAGES

IsPlaylistDir(path) == Len(path) = 2 /\ path[1] = V_PLAYLISTS

\* The name of the release of a release directory, without the position or
\* the date that the view prepends.
ReleaseNameOf(path) ==
    IF path[1] = V_COLLAGES THEN PositionSub(path[3])
    ELSE IF path[1] = V_RECENT THEN AddedAtSub(path[2])
    ELSE path[Len(path)]

\* ---- C3
\* The three renames that are recognised.
C3_Recognised(old, new) ==
    \/ /\ IsReleaseDir(old) /\ IsReleaseDir(new)
       /\ \/ ReleaseNameOf(old) = NewPrefix \o ReleaseNameOf(new)
          \/ ReleaseNameOf(new) = NewPrefix \o ReleaseNameOf(old)
    \/ IsCollageDir(old) /\ IsCollageDir(new) /\ old[2] # new[2]
    \/ IsPlaylistDir(old) /\ IsPlaylistDir(new) /\ old[2] # new[2]

\* C3: rename mutates the library in three cases only (two release
\* directories, neither path with a file component, whose names differ by
\* exactly the "{NEW} " prefix; two collage directories of different names; two
\* playlist directories of different names); every other pair of paths is
\* refused with EACCES and no mutator is called.
C3_RenameRefusesTheRest ==
    ret.op = "rename" =>
        \/ C3_Recognised(ret.args[1], ret.args[2])
        \/ ret.err = "EACCES" /\ ret.calls = <<>>

\* ---- C4
\* C4: rmdir of a release directory under "7. Collages/<collage>/" calls
\* remove_release_from_collage and never delete_release; rmdir of a release
\* directory under any other view calls delete_release; rmdir of a collage
\* directory deletes the collage and of a playlist directory the playlist;
\* every other rmdir is refused with EACCES and mutates nothing.
C4_RmdirDispatch ==
    ret.op = "rmdir" =>
        LET path == ret.args[1] IN
        IF IsCollageDir(path) THEN ret.calls = << <<"delete_collage", path[2]>> >>
        ELSE IF IsPlaylistDir(path) THEN ret.calls = << <<"delete_playlist", path[2]>> >>
        ELSE IF IsReleaseDir(path) /\ path[1] = V_COLLAGES
        THEN ret.calls = << <<"remove_release_from_collage", path[2], ReleaseNameOf(path)>> >>
        ELSE IF IsReleaseDir(path)
        THEN ret.calls = << <<"delete_release", ReleaseNameOf(path)>> >>
        ELSE ret.err = "EACCES" /\ ret.calls = <<>>

\* ---- C5
\* The four targets of unlink, in the library L.
C5_Recognised(L, path) ==
    \/ IsPlaylistDir(path) /\ playlist_exists(L, path[2])
    \/ /\ Len(path) = 3 /\ path[1] = V_PLAYLISTS /\ playlist_exists(L, path[2])
       /\ \/ /\ PositionMatch(path[3])
             /\ TrackAtPosition(PlaylistTracks(L, path[2]), PositionSub(path[3]),
                                PositionGroup(path[3])) > 0
          \/ Lower(path[3]) \in ValidCoverArts
    \/ /\ Len(path) >= 3 /\ IsReleaseDir(SubSeq(path, 1, Len(path) - 1))
       /\ Lower(path[Len(path)]) \in ValidCoverArts

\* C5: unlink of a path that is none of the four targets (an existing
\* playlist, the track at that position and of that file name in an existing
\* playlist, the cover of a playlist, the cover of a release) returns without
\* error and calls no mutator; the library is as it was.
C5_Step ==
    (ret'.op = "unlink" /\ ~C5_Recognised(Lib, ret'.args[1])) =>
        /\ ret'.err = ""
        /\ ret'.calls = <<>>
        /\ UNCHANGED libVars

C5_UnmatchedUnlinkIsNoop == [][C5_Step]_vars

\* ---- C6
\* The release names mkdir tries for a directory name.
C6_Candidates(name) == {name, StripDate(name), StripNumber(name)}

C6_Step ==
    ret'.op = "mkdir" =>
        LET path == ret'.args[1] IN
        IF IsCollageDir(path) THEN ret'.calls = << <<"create_collage", path[2]>> >>
        ELSE IF IsPlaylistDir(path) THEN ret'.calls = << <<"create_playlist", path[2]>> >>
        ELSE IF Len(path) = 3 /\ path[1] = V_COLLAGES
        THEN IF \E n \in C6_Candidates(path[3]) : resolve_release_ids(Lib, n) # NONE
             THEN \E n \in C6_Candidates(path[3]) :
                     /\ resolve_release_ids(Lib, n) # NONE
                     /\ LibNext = add_release_to_collage(Lib, path[2], n).lib
             ELSE ret'.err = "ENOENT" /\ UNCHANGED libVars
        ELSE ret'.err = "EACCES" /\ ret'.calls = <<>> /\ UNCHANGED libVars

\* C6: mkdir creates a collage for "7. Collages/<collage>" and a playlist for
\* "8. Playlists/<playlist>"; for "7. Collages/<collage>/<name>" it adds the
\* release whose virtual dirname is <name>, with or without a leading
\* "[YYYY-MM-DD] " or "N. ", to the collage, and when no release is found it
\* raises ENOENT and leaves the collage as it was; every other mkdir is
\* refused with EACCES and mutates nothing.
C6_MkdirDispatch == [][C6_Step]_vars


\* ---- C7
\* The places of a mutator that are within the scope of its lock.
InsidePcs == {"inside", "store", "apply"}

InScope(p, r) == pc[p] \in InsidePcs /\ job[p].rel = r

\* C7: for every lock name, at most one caller at a time is within the scope
\* of lock(name, timeout), however long a holder stays in it.
C7_OneHolder ==
    \A r \in RIds : \A p, q \in Procs : (InScope(p, r) /\ InScope(q, r)) => p = q

\* ---- C8
\* The step writes to the source tree: a directory, a sidecar, a cover, a tag.
C8_WritesSource == <<srcDirs, sidecarNew, srcCover, tags>>' # <<srcDirs, sidecarNew, srcCover, tags>>

\* C8: delete_release, toggle_release_new, set_release_cover_art,
\* remove_release_cover_art and edit_release make every write to the source
\* tree within the scope of the lock "release:{id}" of the release.
C8_Step ==
    C8_WritesSource =>
        \E p \in Procs : pc'[p] # pc[p] /\ pc[p] \in InsidePcs

C8_WritesUnderLock == [][C8_Step]_vars

\* ---- C9
\* C9: a caller of lock that found the lock taken for the whole of the
\* timeout is not let into the scope (a lock timeout error is raised
\* instead), so its mutator has done none of its mutation.
C9_TimeoutKeepsOut ==
    \A p \in Procs : job[p].blocked >= LockTimeout => pc[p] \in {"acquire", "done"}

\* ---- C10
\* C10: edit_release is all or nothing: when applying the edited metadata
\* fails for some track (a role that is not known, a track id that is
\* missing), the tags of no track have been flushed.
C10_AllOrNothing ==
    \A p \in Procs :
        (pc[p] = "done" /\ job[p].op = "edit_release" /\ job[p].err # "")
            => job[p].flushed = <<>>


\* ---- C11
\* Process p returns from its mutator without an error.
C11_Returns(p) == pc[p] # "done" /\ pc'[p] = "done" /\ job'[p].err = ""

\* What the source tree says of release r after the step.
C11_SourceRow(r) ==
    [present |-> TRUE, new |-> sidecarNew'[r], cover |-> srcCover'[r],
     album |-> tags'[ReleaseTracks(r)[1]]]

\* The mutator of p has written to the source tree: it is at its last step,
\* or this step writes.
C11_HasWritten(p) == pc[p] = "reindex" \/ C8_WritesSource

C11_Step ==
    \A p \in Procs :
        (C11_Returns(p) /\ C11_HasWritten(p)) =>
            LET r == job[p].rel IN
            IF job[p].op = "delete_release" THEN ~cache'[r].present
            ELSE r \in srcDirs' => cache'[r] = C11_SourceRow(r)

C12_ReleasesHost(accs) ==
    /\ ret'.op = "release"
    /\ specialOps[ret'.fh] = NoSop
    /\ roseToHost[ret'.fh] # NoHost
    /\ roseToHost[ret'.fh].acc \in accs

C12_Step ==
    /\ (C12_ReleasesHost({"O_WRONLY", "O_RDWR"}) /\ roseToHost[ret'.fh].target \in TIds) =>
          LET r == TrackRelease(roseToHost[ret'.fh].target) IN
          (cache[r].present /\ r \in srcDirs) =>
              cache'[r] = [present |-> TRUE, new |-> sidecarNew[r], cover |-> srcCover[r],
                           album |-> tags[ReleaseTracks(r)[1]]]
    /\ C12_ReleasesHost({"O_RDONLY"}) => UNCHANGED libVars

\* C12: the release of a handle opened with O_WRONLY or O_RDWR on a track
\* file, through a release directory or through a playlist, updates the cache
\* row of the release that owns the track from its source directory before
\* it returns; the release of a handle opened with O_RDONLY updates nothing.
C12_ReindexOnRelease == [][C12_Step]_vars

\* A track of r2 was written through a handle and, at the release of the
\* handle, the cache has the album tag that was written.
C12_Witness ==
    /\ ret.op = "release"
    /\ ret.err = ""
    /\ roseToHost[ret.fh].target = <<"t2">>
    /\ tags[<<"t2">>] = "v1"
    /\ cache[<<"r2">>].album = "v1"


\* ---- C13
\* The handle is live: it wraps a host file that is not closed, has a
\* special op buffer or has a listing.
C13_Live(fh) ==
    /\ fh \in Handles
    /\ \/ roseToHost[fh] # NoHost /\ ~roseToHost[fh].closed
       \/ specialOps[fh] # NoSop
       \/ fh \in DOMAIN readdirCache

C13_Step ==
    (ret'.op \in {"open", "opendir"} /\ ret'.err = "") =>
        /\ ret'.fh # 9
        /\ ~C13_Live(ret'.fh)

\* C13: the handle that open, create or opendir hands out is never one that
\* is live at that moment (mapped to a host file that is still open, holding
\* a special op buffer or holding a listing), and never the handle 9 of the
\* write sink; so no two live handles are equal.
C13_FreshHandles == [][C13_Step]_vars

\* Handle 12 has been handed out while handle 11 is live.
C13_Witness ==
    /\ ret.op \in {"open", "opendir"}
    /\ ret.fh = 12
    /\ C13_Live(11)
    /\ C13_Live(12)


\* ---- C14
\* The handle is in none of the tables of handles.
C14_InNoTable(host, sops, upd, fh) ==
    host[fh] = NoHost /\ sops[fh] = NoSop /\ upd[fh] = NONE

C14_Step ==
    /\ (ret'.op = "release" /\ ret'.err = "") =>
          C14_InNoTable(roseToHost', specialOps', updateOnClose', ret'.fh)
    /\ (ret'.op \in {"write", "release"}
            /\ C14_InNoTable(roseToHost, specialOps, updateOnClose, ret'.fh)) =>
          ret'.err = "EBADF"

\* C14: when release(fh) has returned, whether it closed a host file, ran a
\* special op, found the buffer empty or found no track id, fh is in none of
\* the tables (the map to host handles, the special op buffers, the releases
\* to update at close), and a write or a release on a handle that is in no
\* table yields EBADF.
C14_ReleasedIsTerminal == [][C14_Step]_vars


\* ---- C15
\* C15: the handles of FileHandleManager start at 10 and wrap at 10 000:
\* whatever the number of calls of next, the handle it hands out is an
\* integer from 10 to 10 000.  _state is the last handle handed out, and an
\* opendir that succeeded answers with it.
C15_HandlesInRange ==
    /\ fhState \in 10..10000
    /\ ret.op = "opendir" /\ ret.err = "" => ret.fh \in 10..10000


\* ---- C16
\* The step releases a handle of the playlist addition sequence whose
\* buffered bytes carry no track id tag.
C16_ReleasesTagless ==
    /\ C1_OnAddition("release")
    /\ TagId(specialOps[ret'.fh].b) = NONE

C16_Step ==
    C16_ReleasesTagless =>
        /\ ret'.err = ""
        /\ ret'.calls = <<>>
        /\ playlists' = playlists
        /\ UNCHANGED libVars

\* C16: when a handle of the add-track-to-playlist special op is released
\* and the buffered bytes carry no track id tag, release returns without
\* error, add_track_to_playlist is not called, and the playlist, its cache
\* rows and its TOML file, is as it was.
C16_TaglessDropped == [][C16_Step]_vars

\* A release of a handle whose buffer holds bytes without a tag has returned.
C16_Witness ==
    /\ ret.op = "release"
    /\ ret.err = ""
    /\ specialOps[ret.fh].op = "add-track-to-playlist"
    /\ specialOps[ret.fh].b = <<"junk">>
    /\ TagId(specialOps[ret.fh].b) = NONE


\* ---- C17
\* The step is a delete_release of release r, whose source directory was
\* there, that returned.
C17_Deletes(r) ==
    /\ ret'.op = "rmdir"
    /\ ret'.err = ""
    /\ Len(ret'.calls) = 1
    /\ ret'.calls[1][1] = "delete_release"
    /\ resolve_release_ids(Lib, ret'.calls[1][2]) = r
    /\ get_release_source_path_from_id(Lib, r) # NONE

\* Every entry of uuid id is where it was and is flagged missing in the TOML
\* file and in the cache.
C17_KeptAndFlagged(before, after, entries(_), id) ==
    \A i \in 1..Len(entries(before)) :
        entries(before)[i] = id =>
            /\ Len(entries(after)) >= i
            /\ entries(after)[i] = id
            /\ id \in after.toml_missing
            /\ id \in after.db_missing

C17_CollageEntries(r) ==
    \A c \in CNames :
        C17_KeptAndFlagged(collages[c], collages'[c], LAMBDA x : x.releases, r)

C17_PlaylistEntries(r) ==
    \A q \in PNames : \A t \in Elems(ReleaseTracks(r)) :
        C17_KeptAndFlagged(playlists[q], playlists'[q], LAMBDA x : x.tracks, t)

C17_Step ==
    \A r \in RIds :
        C17_Deletes(r) =>
            /\ ~cache'[r].present
            /\ \A t \in Elems(ReleaseTracks(r)) : ~TrackCached([cache |-> cache'], t)
            /\ C17_CollageEntries(r)
            /\ C17_PlaylistEntries(r)

\* C17: after delete_release(R) has returned, R and its tracks are not in
\* the cache, and every collage entry of R and every playlist entry of a
\* track of R is still at its position and flagged missing = true, in the
\* cache and in the TOML file.
C17_DeletedIsFlagged == [][C17_Step]_vars


\* ---- C18
\* The step is a run of update_cache.
C18_Scans == scan'.op = "update_cache" /\ nscans' = nscans + 1

\* The uuid is, after the step, the id of an indexed release (track).
C18_Indexed(kind, uuid) ==
    IF kind = "collage" THEN \E r \in relRows' : r.id = uuid
    ELSE \E r \in relRows' : TrackOf(r.id) = uuid

\* Every entry of the TOML is kept where it is, and it is flagged, in the
\* file and in its row, exactly when its uuid is not indexed.
C18_Flags(kind) ==
    /\ Len(tomlFiles'[kind]) = Len(tomlFiles[kind])
    /\ Len(entryRows'[kind]) = Len(tomlFiles[kind])
    /\ \A i \in 1..Len(tomlFiles[kind]) :
          LET uuid == tomlFiles[kind][i].uuid IN
          /\ tomlFiles'[kind][i].uuid = uuid
          /\ entryRows'[kind][i].uuid = uuid
          /\ tomlFiles'[kind][i].missing = ~C18_Indexed(kind, uuid)
          /\ entryRows'[kind][i].missing = ~C18_Indexed(kind, uuid)

\* A release directory and an entry that refers to it, neither of them in
\* the cache yet: the one scan leaves the entry unflagged.
C18_SameScan(kind) ==
    \A d \in DirNames : \A i \in 1..Len(tomlFiles[kind]) :
        LET id == diskDirs[d].sidecar
            uuid == IF kind = "collage" THEN id ELSE TrackOf(id)
        IN (/\ diskDirs[d].there /\ id # NONE
            /\ id \notin IndexedIds(Idx)
            /\ tomlFiles[kind][i].uuid = uuid
            /\ \A j \in 1..Len(entryRows[kind]) : entryRows[kind][j].uuid # uuid)
           => /\ ~tomlFiles'[kind][i].missing
              /\ ~entryRows'[kind][i].missing

C18_Step ==
    C18_Scans => \A kind \in Kinds : C18_Flags(kind) /\ C18_SameScan(kind)

\* C18: after every run of update_cache a collage entry (playlist entry) is
\* flagged missing = true, in its cache row and in the TOML file, exactly
\* when its uuid is not an indexed release (track); indexing removes no
\* entry; and a release directory and a collage that refers to it which
\* appear in the same scan leave the entry unflagged after that one scan,
\* releases being indexed before collages and playlists.
C18_MissingIffNotIndexed == [][C18_Step]_vars

\* update_cache has run on a collage of i1, which is indexed, and of i2,
\* which is not: the entry of i2 is flagged in the file and in the row, the
\* entry of i1 in neither.
C18_Witness ==
    /\ scan.op = "update_cache"
    /\ nscans > 0
    /\ I2 \notin IndexedIds(Idx)
    /\ tomlFiles["collage"] = << [uuid |-> I1, missing |-> FALSE], [uuid |-> I2, missing |-> TRUE] >>
    /\ entryRows["collage"] = tomlFiles["collage"]

\* ---- C19
\* Release id is cached at directory d, the directory has been renamed to e
\* since, and the step is a run of update_cache.
C19_Renamed(id, d, e) ==
    /\ scan'.op = "update_cache" /\ nscans' = nscans + 1
    /\ \E r \in relRows : r.id = id /\ r.source_path = d
    /\ ~diskDirs[d].there
    /\ diskDirs[e].there /\ diskDirs[e].sidecar = id

\* The entries of the release, of its track, are where they were, unflagged.
C19_EntriesKept(kind, uuid) ==
    \A i \in 1..Len(entryRows[kind]) :
        entryRows[kind][i].uuid = uuid =>
            /\ Len(entryRows'[kind]) >= i /\ Len(tomlFiles'[kind]) >= i
            /\ entryRows'[kind][i] = [uuid |-> uuid, missing |-> FALSE]
            /\ tomlFiles'[kind][i] = [uuid |-> uuid, missing |-> FALSE]

C19_Step ==
    \A id \in {I1, I2} \cup Elems(MintIds) : \A d, e \in DirNames :
        C19_Renamed(id, d, e) =>
            /\ Cardinality({r \in relRows' : r.id = id}) = 1
            /\ \A r \in relRows' : r.id = id => r.source_path = e
            /\ C19_EntriesKept("collage", id)
            /\ C19_EntriesKept("playlist", TrackOf(id))

\* C19: when the source directory of a cached release has been renamed
\* between two scans and update_cache runs again, the cache has exactly one
\* release row with the id of the release's sidecar, which points at the new
\* path, and every collage entry of the release and playlist entry of its
\* track is still at its position and not flagged missing.
C19_RenameKeepsRelease == [][C19_Step]_vars

\* update_cache has run after d1, the directory of i1, was renamed.
C19_Witness ==
    /\ scan.op = "update_cache"
    /\ nscans = 2
    /\ ~diskDirs["d1"].there
    /\ \E r \in relRows : r.id = I1 /\ r.source_path # "d1"
    /\ tomlFiles["collage"][1] = [uuid |-> I1, missing |-> FALSE]
    /\ entryRows["playlist"][1] = [uuid |-> TrackOf(I1), missing |-> FALSE]

\* ---- C20
\* The names that tell colliding releases apart: the formatted name, or the
\* formatted name and " [n]", n from 2 on.
C20_Names(r) ==
    {FormatName(r)} \cup
        {FormatName(r) \o <<SP, "[", NumAtoms[n], "]">> : n \in 2..Len(NumAtoms)}

\* C20: after any sequence of runs of update_cache and of
\* update_cache_for_releases, runs that index several identical releases at
\* once and runs that add a colliding release to a populated cache among
\* them, no two releases of the cache have the same virtual_dirname;
\* colliding releases are told apart by the suffixes " [2]", " [3]", ...
C20_UniqueDirnames ==
    /\ \A r1, r2 \in relRows : r1 # r2 => r1.virtual_dirname # r2.virtual_dirname
    /\ \A r \in relRows : r.virtual_dirname \in C20_Names(r)

\* Three releases of the same name are in the cache, as "{NEW} X",
\* "{NEW} X [2]" and "{NEW} X [3]".
C20_Witness ==
    {r.virtual_dirname : r \in relRows} =
        { <<NEWTAG, SP, "X">>, <<NEWTAG, SP, "X", SP, "[", "2", "]">>,
          <<NEWTAG, SP, "X", SP, "[", "3", "]">> }

\* ---- C21
\* The step is a run of update_cache that is not forced.
C21_Scans == scan'.op = "update_cache" /\ ~scan'.force /\ nscans' = nscans + 1

\* The directory was indexed before (its tags carry the release id) and its
\* sidecar is absent.
C21_Partial(d) ==
    diskDirs[d].there /\ diskDirs[d].sidecar = NONE /\ diskDirs[d].tagged # NONE

\* The directory was indexed before and its sidecar is in place.
C21_Whole(d) ==
    diskDirs[d].there /\ diskDirs[d].sidecar # NONE
        /\ diskDirs[d].sidecar = diskDirs[d].tagged

\* The rows of the cache for the release of the directory at that path,
\* before and after the step.
C21_RowsBefore(d) ==
    {r \in relRows : r.source_path = d /\ r.id = diskDirs[d].tagged}
C21_RowsAfter(d) ==
    {r \in relRows' : r.source_path = d /\ r.id = diskDirs[d].tagged}

\* The scan writes no sidecar, and mints no id.
C21_Untouched(d) ==
    /\ diskDirs'[d] = diskDirs[d]
    /\ \A i \in 1..Len(MintIds) :
          MintIds[i] \notin UsedIds(Idx) =>
              /\ \A r \in relRows' : r.id # MintIds[i]
              /\ \A e \in DirNames : diskDirs'[e].sidecar # MintIds[i]

\* The directory is in the cache under the id of its sidecar.
C21_Reindexed(d) ==
    \E r \in relRows' : r.id = diskDirs[d].sidecar /\ r.source_path = d

C21_StepAsStated ==
    C21_Scans =>
        \A d \in DirNames :
            /\ C21_Partial(d) =>
                  ((\A e \in DirNames : ~diskDirs[e].there \/ C21_Partial(e)
                                            \/ diskDirs[e].sidecar # NONE)
                       => C21_Untouched(d))
                  /\ diskDirs'[d] = diskDirs[d]
                  /\ C21_RowsAfter(d) = {}
            /\ C21_Whole(d) => C21_Reindexed(d)

C21_Step ==
    C21_Scans =>
        \A d \in DirNames :
            /\ C21_Partial(d) =>
                  ((\A e \in DirNames : ~diskDirs[e].there \/ C21_Partial(e)
                                            \/ diskDirs[e].sidecar # NONE)
                       => C21_Untouched(d))
                  /\ diskDirs'[d] = diskDirs[d]
                  /\ C21_RowsAfter(d) = C21_RowsBefore(d)
            /\ C21_Whole(d) => C21_Reindexed(d)

C22_Adds ==
    /\ nops' = nops + 1
    /\ ret'.op = "mkdir" /\ ret'.err = "" /\ ret'.calls # <<>>
    /\ ret'.calls[Len(ret'.calls)][1] = "add_release_to_collage"

C22_Collage == ret'.calls[Len(ret'.calls)][2]
C22_Release == resolve_release_ids(Lib, ret'.calls[Len(ret'.calls)][3])

\* How many times the collage holds the release after the step.
C22_Count ==
    Cardinality({i \in 1..Len(collages'[C22_Collage].releases) :
                    collages'[C22_Collage].releases[i] = C22_Release})

C22_Step ==
    C22_Adds =>
        /\ C22_Count = 1
        /\ InSeq(collages[C22_Collage].releases, C22_Release) => UNCHANGED libVars

\* C22: add_release_to_collage, called by mkdir, leaves the collage TOML and
\* the cache as they are when the release is already in the collage, and
\* after every add the collage holds the release exactly once.
C22_AddIsIdempotent == [][C22_Step]_vars

\* The release that the collage held from the start has been added to it.
C22_Witness ==
    /\ nops = 1
    /\ ret.op = "mkdir" /\ ret.err = ""
    /\ ret.calls = << <<"add_release_to_collage", nC, nNewA>> >>
    /\ collages[nC].releases = << <<"r1">> >>


\* ---- C23
\* C23: for every MetadataRelease x, year None, year 0 and every other year
\* included, from_toml(serialize(x)) is x.
C23_RoundTrip == mback.done => mback.release = mrel


\* ---- C24
\* The step is a run of execute_metadata_rule.
C24_Runs == nruns' = nruns + 1 /\ rrun'.ran

C24_Step ==
    (C24_Runs /\ rrun'.err \in {"InvalidReplacementValueError", "InvalidRuleActionError"})
        => rtags' = rtags /\ rrun'.flushed = <<>>

\* C24: when execute_metadata_rule raises InvalidReplacementValueError or
\* InvalidRuleActionError, for whichever of the candidate tracks, the tags of
\* no track have been flushed.
C24_ErrorBeforeFlush == [][C24_Step]_vars

\* The run has raised on a track that is not the first: the first pass had
\* computed a change for a track before it.
C24_Witness ==
    /\ rrun.ran /\ rrun.err = "InvalidRuleActionError"
    /\ FirstPass(rtags, rrule, TrackPaths(rrule), 1, <<>>).audiotags # <<>>


\* ---- C25
\* The step is a run with confirm_yes, and there are more changed tracks
\* than the threshold.
C25_Asked == nruns' = nruns + 1 /\ rrun'.ran /\ rrun'.confirm_yes
C25_Count == Len(rrun'.changed)
C25_Above == C25_Count > rrun'.threshold
C25_Wrote == rrun'.flushed # <<>> \/ rtags' # rtags

\* The number has been typed, and no "no" before it.
C25_TypedNumber ==
    \E i \in 1..Len(rrun'.answers) :
        /\ rrun'.answers[i] = StrOfCount(C25_Count)
        /\ \A j \in 1..(i - 1) : rrun'.answers[j] # "no"

\* The first answer that the yes/no prompt takes is one of `answers`.
C25_Answered(answers) ==
    \E i \in 1..Len(rrun'.answers) :
        /\ rrun'.answers[i] \in answers
        /\ \A j \in 1..(i - 1) : rrun'.answers[j] \notin {"y", "yes", "n", "no", ""}

C25_Declined ==
    IF C25_Above THEN rrun'.answers # <<>> /\ rrun'.answers[1] = "no"
    ELSE C25_Answered({"n", "no"})

C25_StepAsStated ==
    C25_Asked =>
        /\ C25_Wrote => IF C25_Above THEN C25_TypedNumber ELSE C25_Answered({"y", "yes"})
        /\ C25_Declined => ~C25_Wrote

\* C25 as stated: with confirm_yes, tags are flushed only when the user has
\* typed the number of changed tracks (more tracks than the threshold) or
\* has answered yes (otherwise), and a "no" ends the run with no write.
C25_AsStated == [][C25_StepAsStated]_vars

C25_Step ==
    C25_Asked =>
        /\ C25_Wrote => IF C25_Above THEN C25_TypedNumber
                        ELSE C25_Answered({"y", "yes", ""})
        /\ C25_Declined => ~C25_Wrote

\* C25: with confirm_yes, tags are flushed only when the user has typed the
\* number of changed tracks (more tracks than the threshold) or has answered
\* the yes/no prompt with yes or with nothing, the default of the prompt being
\* yes (otherwise); a "no" ends the run with no write.
C25_FlushOnlyConfirmed == [][C25_Step]_vars

\* The user has typed the number of the changed tracks, after a wrong one,
\* and the tags have been flushed.
C25_Witness ==
    /\ rrun.ran /\ rrun.confirm_yes /\ rrun.err = ""
    /\ Len(rrun.changed) = 3 /\ rrun.threshold = 1
    /\ rrun.answers = <<"1", "3">>
    /\ rrun.flushed = rrun.changed


\* ---- C26
\* The key of the tags record that a tag field is kept in.
C26_Key(field) ==
    CASE field = "tracktitle" -> "title"
      [] field = "year" -> "year"
      [] field = "releasetype" -> "release_type"
      [] field = "genre" -> "genre"
      [] field = "label" -> "label"

C26_Named(field) == \E i \in 1..Len(rrule.tags) : rrule.tags[i] = field

C26_Step ==
    C24_Runs =>
        \A t \in TIds :
            /\ \A i \in 1..Len(AllFields) :
                  ~C26_Named(AllFields[i])
                      => rtags'[t][C26_Key(AllFields[i])] = rtags[t][C26_Key(AllFields[i])]
            /\ InSeq(rrun'.flushed, t) => rtags'[t] # rtags[t]
            /\ ~InSeq(rrun'.flushed, t) => rtags'[t] = rtags[t]

\* C26: after a run every tag field that rule.tags does not name has, on
\* every track, the value it had before the run, and a track for which no
\* change has been computed is not flushed.
C26_OnlyNamedFields == [][C26_Step]_vars

\* A run has flushed one track and has left alone a candidate whose tags the
\* rule does not change.
C26_Witness ==
    /\ rrun.ran /\ rrun.err = ""
    /\ rrun.flushed # <<>>
    /\ \E t \in TIds : /\ InSeq(TrackPaths(rrule), t)
                       /\ ~InSeq(rrun.flushed, t)
                       /\ rtags[t] = InitTags[t]


\* ---- C27
\* The last run went through to the end of its flush.
C27_Confirmed == rrun.ran /\ rrun.err = "" /\ rrun.flushed = rrun.changed

C27_Replace ==
    /\ rrule.action.kind = "replace"
    /\ ~matches_rule(rrule, rrule.action.replacement)

C27_Step ==
    (C24_Runs /\ C27_Confirmed /\ C27_Replace)
        => rrun'.changed = <<>> /\ rrun'.flushed = <<>> /\ rtags' = rtags

\* C27: a run of a Replace rule whose replacement does not match the
\* matcher, right after a run of the same rule that was confirmed, computes
\* no change and flushes nothing.
C27_RerunIsNoOp == [][C27_Step]_vars

\* The second run of a Replace rule, after a first run that has changed tags.
C27_Witness ==
    /\ nruns = 2 /\ rrun.ran /\ rrun.err = ""
    /\ rrule.action.kind = "replace"
    /\ ~matches_rule(rrule, rrule.action.replacement)
    /\ rrun.before # InitTags
    /\ rrun.changed = <<>>


\* ---- C28
\* The kernel asks for the attributes of a path.
C28_Asks(path) ==
    ret = Idle /\ ret'.op \in {"getattr", "lookup"} /\ ret'.args = <<path>>

\* A file-creation special op on the path has been released less than
\* GHOST_FILE_TTL seconds ago.
C28_Released(path) ==
    \E fh \in DOMAIN made.files :
        /\ made.files[fh].path = path
        /\ made.files[fh].at >= 0
        /\ vnow - made.files[fh].at < GHOST_FILE_TTL

C28_Step ==
    \A path \in CacheFilePaths :
        (C28_Asks(path) /\ C28_Released(path)) => stat'.err = "" /\ stat'.kind = "file"

\* C28: getattr and lookup of a path answer with the attributes of a regular
\* file when a file-creation special op on that path has been released less
\* than 2 s ago, however long ago the file was opened.
C28_GhostAfterRelease == [][C28_Step]_vars


\* ---- C29
\* The directory was made by an add-release-to-collage mkdir less than
\* GHOST_DIR_TTL seconds ago.
C29_Ghost(dir) ==
    dir \in DOMAIN made.mkdirs /\ vnow - made.mkdirs[dir].at < GHOST_DIR_TTL

\* The names of the listing that the answered opendir has kept.
C29_Names == [i \in 1..Len(readdirCache'[ret'.fh]) |-> readdirCache'[ret'.fh][i].name]

C29_Lists(dir) == ret = Idle /\ ret'.op = "opendir" /\ ret'.args = <<dir>>

C29_Opens(path) ==
    ret = Idle /\ ret'.op \in {"open", "create"} /\ ret'.args[1] = path

C29_Sink == ret = Idle /\ ret'.op \in {"write", "read", "release"} /\ ret'.fh = DevNull

C29_Step ==
    /\ \A dir \in GhostListPaths :
          (C29_Lists(dir) /\ C29_Ghost(dir)) => ret'.err = "" /\ C29_Names = Dots
    /\ \A path \in GhostFilePaths :
          (C29_Opens(path) /\ C29_Ghost(Parent(path)))
              => ret'.err = "" /\ ret'.fh = DevNull
    /\ C29_Sink => ret'.err = "" /\ UNCHANGED libVars

\* C29: for 5 s after an add-release-to-collage mkdir that succeeded, opendir
\* of the new directory lists "." and ".." only, open and create of a file in
\* it hand out the write sink, and write, read and release on the write sink
\* succeed and leave the source tree, the cache, the collages and the
\* playlists as they were.
C29_GhostDirectory == [][C29_Step]_vars

\* Four seconds after the mkdir a file made in the directory, on the write
\* sink, has been closed.
C29_Witness ==
    /\ nops = 3 /\ ret.op = "release" /\ ret.fh = DevNull /\ ret.err = ""
    /\ C29_Ghost(<<V_COLLAGES, nC, nNewA>>)
    /\ vnow - made.mkdirs[<<V_COLLAGES, nC, nNewA>>].at = 4
    /\ <<V_COLLAGES, nC, nNewA, fX>> \in DOMAIN ghostFiles


\* ---- C30
\* A syscall that has changed the library is answered: unlink, mkdir, rmdir,
\* rename or create that has not failed, or a release that has run a
\* file-creation special op.
C30_Mutates ==
    /\ ret = Idle /\ ret'.err = ""
    /\ \/ ret'.op \in {"unlink", "mkdir", "rmdir", "rename", "create"}
       \/ ret'.op = "release" /\ ret'.fh # DevNull /\ ret'.calls # <<>>

C30_Step == C30_Mutates => getattrCache' = <<>> /\ lookupCache' = <<>>

\* C30: a syscall that changes the library leaves getattr_cache and
\* lookup_cache empty, so that what getattr and lookup answer afterwards was
\* not cached before the change.
C30_MutationEmptiesCaches == [][C30_Step]_vars


\* ---- C31
\* The release that the directory name stands for is listed in the collage.
C31_Listed(c, x) ==
    /\ collages'[c].exists
    /\ \E i \in 1..Len(collages'[c].releases) :
          /\ cache'[collages'[c].releases[i]].present
          /\ VirtualDirname(Lib, collages'[c].releases[i]) = x

C31_Step ==
    \A path \in CollageReleasePaths :
        C28_Asks(path) => (stat'.err = "" <=> C31_Listed(path[2], path[3]))

\* C31: getattr and lookup of a release directory of a collage succeed
\* exactly when the release is listed in the collage, also in the seconds
\* after the collage was made by mkdir and after the release was added by
\* mkdir.
C31_VisibleIffListed == [][C31_Step]_vars

\* ---- C32
\* The values that the cache has for a tag field of a track; a NULL is none.
C32_Values(field, row) ==
    CASE field = "tracktitle" -> {row.title} \ {NONE}
      [] field = "year" -> IF row.year.none THEN {} ELSE {StrOfYear(row.year.val)}
      [] field = "releasetype" -> {row.release_type} \ {NONE}
      [] field = "genre" -> Elems(row.genre)
      [] field = "label" -> Elems(row.label)

C32_Matches(t) ==
    \E i \in 1..Len(rrule.tags) :
        \E v \in C32_Values(rrule.tags[i], rcache[t]) : matches_rule_literal(rrule, v)

\* C32: every track for which a field named in rule.tags has a cached value
\* that matches the matcher is among the track_paths of the query, also a
\* track whose release has a matching label and no genre.
C32_SelectionComplete ==
    \A t \in TIds : C32_Matches(t) => InSeq(TrackPaths(rrule), t)

\* ---- C33
\* Tag values that the re-check is asked about.
C33_Values ==
    { kpop, KPop, <<"k", "_", "pop">>, <<"k", "\\", "_", "pop">>, <<"19", "90">>,
      <<"K-", "pop">>, <<>> }

\* C33: matches_rule accepts a value exactly when, with both anchors, it is
\* the pattern text, with ^ only it starts with it, with $ only it ends
\* with it, and without an anchor the pattern text is a substring of it,
\* also for a pattern that contains % or _.
C33_RecheckIsLiteral ==
    \A v \in C33_Values : matches_rule(rrule, v) <=> matches_rule_literal(rrule, v)

\* ---- C34
\* The parts of v.split(delimiter), each trimmed, without the empty ones.
RECURSIVE C34_Parts(_, _, _)
C34_Parts(s, delim, part) ==
    LET out == IF Strip(part) # <<>> THEN <<Strip(part)>> ELSE <<>> IN
    IF s = <<>> THEN out
    ELSE IF Head(s) = delim THEN out \o C34_Parts(Tail(s), delim, <<>>)
    ELSE C34_Parts(Tail(s), delim, Append(part, Head(s)))

\* The list that a Split makes of values: the matching elements replaced by
\* their parts, the others kept in place.
RECURSIVE C34_Split(_, _, _)
C34_Split(rule, values, i) ==
    IF i > Len(values) THEN <<>>
    ELSE (IF matches_rule(rule, values[i])
          THEN C34_Parts(values[i], rule.action.delimiter, <<>>)
          ELSE <<values[i]>>) \o C34_Split(rule, values, i + 1)

C34_Step ==
    (rrun'.ran /\ rrule.action.kind = "split" /\ rrule.tags = <<"genre">>)
        => \A t \in TIds :
              InSeq(rrun'.flushed, t)
                  => /\ rtags'[t].genre = C34_Split(rrule, rtags[t].genre, 1)
                     /\ ~InSeq(rtags'[t].genre, <<>>)

\* C34: a Split on the genre puts, for every matching element, the trimmed
\* parts of value.split(delimiter) in its place and keeps the other elements
\* as they are, and the list that is written has no empty string in it.
C34_SplitDropsEmptyParts == [][C34_Step]_vars

\* ---- C35
\* The values that a tag field of a track has on disk, as the actions are
\* given them: a single-valued field that is None is given as "".
C35_Values(field, atags) ==
    CASE field = "tracktitle" -> {IF atags.title = NONE THEN <<>> ELSE atags.title}
      [] field = "year" -> {IF atags.year.none THEN <<>> ELSE StrOfYear(atags.year.val)}
      [] field = "releasetype" ->
             {IF atags.release_type = NONE THEN <<>> ELSE atags.release_type}
      [] field = "genre" -> Elems(atags.genre)
      [] field = "label" -> Elems(atags.label)

C35_Step ==
    rrun'.ran
        => \A t \in TIds : \A i \in 1..Len(AllFields) :
              rtags'[t][C26_Key(AllFields[i])] # rtags[t][C26_Key(AllFields[i])]
                  => \E v \in C35_Values(AllFields[i], rtags[t]) : matches_rule(rrule, v)

\* C35: a run changes a tag field of a track only if a value that the field
\* has on disk matches the matcher, whatever the action is and however many
\* fields the rule names.
C35_OnlyMatchingValuesChange == [][C35_Step]_vars

\* ---- C36
C36_Step ==
    rrun'.ran => \A t \in TIds : InSeq(rrun'.flushed, t) => rcache'[t] = rtags'[t]

\* C36: when execute_metadata_rule returns after a flush, the rows that the
\* cache has for the flushed tracks are the tags that are now on disk, so
\* that the query of the next run selects by the new values.
C36_CacheFollowsFlush == [][C36_Step]_vars

\* ---- C37
\* Two renames of {NEW} A to A have been dispatched and both calls have come
\* to their end.
C37_BothDone ==
    \A p \in Procs : /\ pc[p] = "done"
                     /\ job[p].op = "toggle_release_new"
                     /\ job[p].rel \in {<<"r1">>, nNewA}

\* C37: when two renames of the same release from {NEW} X to X have run
\* on two worker threads, in whatever order their steps were taken, the
\* release is not new: its flag has been toggled once.
C37_ToggledOnce ==
    C37_BothDone => ~sidecarNew[<<"r1">>] /\ ~cache[<<"r1">>].new

\* ---- C38
\* The file names that readdir lists in a directory.
C38_Names(dir) ==
    SelectSeq(readdir(Lib, Parse(dir, TRUE)).names, LAMBDA n : ~InSeq(Dots, n))

\* C38: every file name that readdir lists in a release directory is a
\* file for getattr and is opened for reading under that name, the tracks
\* under their position and virtual filename and the cover art under the
\* name that it was listed with.
C38_ListedNamesResolve ==
    \A dir \in ListDirs : \A i \in 1..Len(C38_Names(dir)) :
        /\ getattr(Lib, Parse(Append(dir, C38_Names(dir)[i]), TRUE)) = "file"
        /\ open(Lib, Parse(Append(dir, C38_Names(dir)[i]), TRUE), RdOnly).err = ""

\* ---- C39
\* VirtualPath.parse returns a record for the path.
C39_Accepted(path) == Parse(path, TRUE).view # "ENOENT"

\* C39: a path that has been parsed to a VirtualPath is the only path with
\* that record: no other path that parse accepts has the same one.
C39_ParseInjective ==
    (stat.op \in {"getattr", "lookup"} /\ C39_Accepted(stat.path))
        => \A q \in ParsePaths :
              (q # stat.path /\ C39_Accepted(q)) => Parse(q, TRUE) # Parse(stat.path, TRUE)

\* ---- C40
\* C40: the two maps of INodeManager are inverse of each other: every
\* inode of the inode-to-path map has a path whose entry in the
\* path-to-inode map is that inode, and every path of the path-to-inode
\* map has an inode whose entry in the inode-to-path map is that path.
C40_MapsInverse ==
    /\ \A i \in DOMAIN inodeToPath :
           inodeToPath[i] \in DOMAIN pathToInode /\ pathToInode[inodeToPath[i]] = i
    /\ \A p \in DOMAIN pathToInode :
           pathToInode[p] \in DOMAIN inodeToPath /\ inodeToPath[pathToInode[p]] = p


=============================================================================
